---- MODULE Spec2Model ----
(***************************************************************************)
(* Codespace lifecycle operations of the CLI: Rebuild (rebuild.go),        *)
(* showStatus, the post-create state poller (create.go), Delete, the bulk  *)
(* deletion (delete command, kept in edit.go), and Create (create.go).     *)
(* Each operation is a                                                     *)
(* state machine of its own, with its own specification; the variables of  *)
(* the operations that a specification does not run stay at their initial  *)
(* values.  lazyLoadedHTTPClient.Do (root.go), the HTTP client these       *)
(* operations share, is run by several goroutines at once.                 *)
(***************************************************************************)
EXTENDS Integers, Sequences, FiniteSets, TLC

VARIABLES
    \* ---- App.Rebuild
    rbPc,            \* position in Rebuild
    rbName,          \* codespaceName argument ("" = choose interactively)
    rbFetched,       \* <<c>> once the control plane or the prompt gave record c
    rbCodespace,     \* <<c>> once getOrChooseCodespace returned c, else << >>
    rbErr,           \* the named result err of Rebuild
    rbCancelled,     \* the caller's context has been cancelled
    rbOpened,        \* sessions opened by startLiveShareSession
    rbClosed,        \* calls of session.Close
    rbRebuilds,      \* calls of session.RebuildContainer
    rbOut,           \* lines printed on a.io.Out
    \* ---- App.showStatus
    stPc,            \* "polling" while PollPostCreateStates runs, then "done"
    finishedStates,  \* names of the states already processed
    lastState,       \* the state whose progress indicator is shown
    breakNextState,  \* stop at the next pass with nothing in progress
    stStopped,       \* the poller has called stopPolling
    stExternal,      \* how the caller's context ended: "none", "canceled", "deadline"
    stErr,           \* the result of showStatus
    stStarts,        \* per name, the StartProgressIndicatorWithLabel calls so far
    stPollErr,       \* the error PollPostCreateStates returned
    stLastPass,      \* what the last pass of the poller did
    stWindow,        \* inProgress of the last two passes, oldest first
    \* ---- delete command: RunE and App.Delete
    dlPc,            \* position in the command
    dlOpts,          \* deleteOptions
    dlCodespaces,    \* the slice codespaces
    dlNameFilter,    \* nameFilter
    dlIndex,         \* position of the filter loop in codespaces
    dlToDelete,      \* codespacesToDelete
    dlTasks,         \* per goroutine of the errgroup: where it is, whether it failed
    dlGroupErr,      \* the errgroup holds an error
    dlErr,           \* the result of the command
    dlPassed,        \* positions of the records that got past the three filters
    dlApiCalls,      \* the control-plane calls issued, in order
    dlPrompts,       \* the prompts issued, in order
    dlErrLog,        \* the names that errLogger printed a deletion error for
    \* ---- App.Create
    crPc,            \* position in Create
    crOpts,          \* createOptions
    crIO,            \* a.io: CanPrompt()
    crInputs,        \* userInputs
    crRepository,    \* <<repository>> once GetRepository returned it
    crBranch,        \* branch
    crDevContainers, \* what ListDevContainers returned
    crDevContainerPath, \* devContainerPath
    crMachines,      \* what GetCodespacesMachines returned
    crMachine,       \* machine
    crParams,        \* <<createParams>> once built; handleAdditionalPermissions writes to it
    crCodespace,     \* <<codespace>> once a CreateCodespace call returned it
    crAllowURL,      \* aerr.AllowPermissionsURL of the first CreateCodespace call
    crErr,           \* the result of Create
    crApiCalls,      \* the control-plane calls issued, in order
    crPrompts,       \* the prompts issued, in order
    crBrowsed,       \* the URLs handed to a.browser.Browse, and whether it opened them
    crStatus,        \* the showStatus calls: codespace and result
    crOut,           \* lines printed on a.io.Out
    crErrOut,        \* what was printed on a.io.ErrOut, by kind
    \* ---- lazyLoadedHTTPClient.Do
    clPc,            \* per goroutine, its position in Do
    clMu,            \* httpClientMu: the writer holding it and the readers holding it
    clHttpClient,    \* the field l.httpClient
    clLocal,         \* per goroutine, its local httpClient
    clFactoryErr,    \* per goroutine, whether its err is non-nil
    clVisible,       \* per goroutine, the values an unlocked read of the field may give
    clSent,          \* per goroutine, <<c>> once it called c.Do(req)
    clWrites         \* the values assigned to l.httpClient, in order

rebuildVars == <<rbPc, rbName, rbFetched, rbCodespace, rbErr, rbCancelled, rbOpened,
                 rbClosed, rbRebuilds, rbOut>>

statusVars == <<stPc, finishedStates, lastState, breakNextState, stStopped,
                stExternal, stErr, stStarts, stPollErr, stLastPass, stWindow>>

deleteVars == <<dlPc, dlOpts, dlCodespaces, dlNameFilter, dlIndex, dlToDelete,
                dlTasks, dlGroupErr, dlErr, dlPassed, dlApiCalls, dlPrompts,
                dlErrLog>>

createVars == <<crPc, crOpts, crIO, crInputs, crRepository, crBranch, crDevContainers,
                crDevContainerPath, crMachines, crMachine, crParams, crCodespace,
                crAllowURL, crErr, crApiCalls, crPrompts, crBrowsed, crStatus, crOut,
                crErrOut>>

clientVars == <<clPc, clMu, clHttpClient, clLocal, clFactoryErr, clVisible, clSent,
                clWrites>>
vars == <<rebuildVars, statusVars, deleteVars, createVars, clientVars>>

\* what the actions of one operation leave alone
otherThanRebuild == <<statusVars, deleteVars, createVars, clientVars>>
otherThanStatus == <<rebuildVars, deleteVars, createVars, clientVars>>
otherThanDelete == <<rebuildVars, statusVars, createVars, clientVars>>
otherThanCreate == <<rebuildVars, statusVars, deleteVars, clientVars>>
otherThanClient == <<rebuildVars, statusVars, deleteVars, createVars>>

----------------------------------------------------------------------------
(* Bounds of the model *)

\* longest list a ListCodespaces call returns
MaxCodespaces == 2

\* longest list of post-create states one poll pass reports
MaxStates == 2

\* the count of indicator starts per name saturates here
MaxStarts == 2

\* largest --days value
MaxKeepDays == 1

\* longest list a ListDevContainers call returns
MaxDevContainers == 2

\* longest list a GetCodespacesMachines call returns
MaxMachines == 2
\* goroutines calling lazyLoadedHTTPClient.Do at the same time
MaxCallers == 3

----------------------------------------------------------------------------
(* Data *)

\* codespace names: the i-th record of a list is named CodespaceName(i)
CodespaceName(i) == <<"cs", i>>
NoName == << >>
CodespaceNames == {CodespaceName(i) : i \in 1..MaxCodespaces}

\* api.CodespaceStateAvailable, api.CodespaceStateRebuilding
CodespaceStateAvailable == "Available"
CodespaceStateRebuilding == "Rebuilding"
CodespaceStates == {CodespaceStateAvailable, CodespaceStateRebuilding}

PendingReasons == {"Some pending operation", "Another pending operation"}

CreatedAts == {"2023-01-01", "2023-01-02"}

\* errors: the nil error, and an error built from a message and its argument
NoErr == [kind |-> "nil", detail |-> << >>]
Err(kind, detail) == [kind |-> kind, detail |-> detail]

\* records as the control plane returns them to Rebuild
RebuildCodespaces(name) ==
    [Name : {name},
     State : CodespaceStates,
     PendingOperation : BOOLEAN,
     PendingOperationDisabledReason : PendingReasons,
     CreatedAt : CreatedAts]

\* the lists ListCodespaces may return to Rebuild: at most MaxCodespaces
\* records, the i-th named CodespaceName(i)
RebuildLists ==
    UNION {{l \in [1..n -> UNION {RebuildCodespaces(CodespaceName(i)) : i \in 1..n}] :
               \A i \in 1..n : l[i].Name = CodespaceName(i)} : n \in 0..MaxCodespaces}

\* sort.Slice(sortedCodespaces, CreatedAt descending): the orders it may leave
\* the list in (the sort is not stable, so ties may land either way)
Newer(a, b) == a = "2023-01-02" /\ b = "2023-01-01"

\* a list that is offered in the order it came in
KeptInListOrder(list) == {list}

SortedByCreatedAt(list) ==
    {s \in {[i \in 1..Len(list) |-> list[f[i]]] : f \in Permutations(1..Len(list))} :
        \A i, j \in 1..Len(s) : i < j => ~Newer(s[j].CreatedAt, s[i].CreatedAt)}

----------------------------------------------------------------------------
(* common.go *)

\* chooseCodespaceFromList: the result for the sorted list and the answer of
\* the prompt (answer.err: ask failed; answer.idx: the chosen position)
chooseCodespaceFromList(codespaces, sorted, answer) ==
    IF Len(codespaces) = 0
    THEN [fetched |-> << >>, codespace |-> << >>, err |-> Err("you have no codespaces", << >>)]
    ELSE IF answer.err
    THEN [fetched |-> << >>, codespace |-> << >>, err |-> Err("error getting answers", << >>)]
    ELSE [fetched |-> <<sorted[answer.idx]>>, codespace |-> <<sorted[answer.idx]>>,
          err |-> NoErr]

\* chooseCodespace: ListCodespaces, then the prompt
chooseCodespace(listResp, sorted, answer) ==
    IF listResp.err
    THEN [fetched |-> << >>, codespace |-> << >>, err |-> Err("error getting codespaces", << >>)]
    ELSE chooseCodespaceFromList(listResp.list, sorted, answer)

\* a gate that lets a pending codespace through
pendingOperationGateOpen(codespace) ==
    [fetched |-> <<codespace>>, codespace |-> <<codespace>>, err |-> NoErr]

\* the pending-operation gate of getOrChooseCodespace, lines 185-192
pendingOperationGate(codespace) ==
    IF codespace.PendingOperation
    THEN [fetched |-> <<codespace>>, codespace |-> << >>,
          err |-> Err("codespace is disabled while it has a pending operation",
                      codespace.PendingOperationDisabledReason)]
    ELSE [fetched |-> <<codespace>>, codespace |-> <<codespace>>, err |-> NoErr]

\* getOrChooseCodespace: by name (getResp) or by choice (listResp, answer)
getOrChooseCodespace(codespaceName, getResp, listResp, sorted, answer) ==
    IF codespaceName = NoName
    THEN LET r == chooseCodespace(listResp, sorted, answer) IN
         IF r.err # NoErr
         THEN IF r.err.kind = "you have no codespaces"
              THEN r
              ELSE [fetched |-> << >>, codespace |-> << >>, err |-> Err("choosing codespace", r.err.kind)]
         ELSE pendingOperationGate(r.codespace[1])
    ELSE IF getResp.err
         THEN [fetched |-> << >>, codespace |-> << >>, err |-> Err("getting full codespace details", << >>)]
         ELSE pendingOperationGate(getResp.codespace)

\* the answers a prompt over n options can give
Answers(n) == {[err |-> TRUE, idx |-> 0]} \cup {[err |-> FALSE, idx |-> i] : i \in 1..n}

\* whether a call that takes the context may succeed
CallOutcomes(cancelled) == IF cancelled THEN {FALSE} ELSE {TRUE, FALSE}

----------------------------------------------------------------------------
(* create.go: the state of App.showStatus *)

\* codespaces.PostCreateStateRunning; every other status is a finished one
PostCreateStateRunning == "running"
PostCreateStateSuccess == "succeeded"
PostCreateStatuses == {PostCreateStateRunning, PostCreateStateSuccess}

\* names of post-create states; "" is the name of the zero PostCreateState
TaskNames == {"", "a", "b"}

PostCreateStates == [Name : TaskNames, Status : PostCreateStatuses]

\* codespaces.PostCreateState{}
ZeroState == [Name |-> "", Status |-> ""]

\* the lists a poll pass may report
PollResponses == UNION {[1..n -> PostCreateStates] : n \in 0..MaxStates}

\* what a pass did: the names it started an indicator for (in order), the names
\* whose Status it read, the names it skipped as finished, whether it found a
\* state in progress, the list it was given and the names it put into
\* finishedStates (in order); tick flips with every pass
NoPass == [tick |-> FALSE, started |-> << >>, examined |-> {}, skipped |-> {},
           inProgress |-> FALSE, states |-> << >>, added |-> << >>]

\* showStatus, lines 353-360, before PollPostCreateStates is called
StatusStart ==
    /\ stPc = "polling"
    /\ finishedStates = {}
    /\ lastState = ZeroState
    /\ breakNextState = FALSE
    /\ stStopped = FALSE
    /\ stExternal = "none"
    /\ stErr = NoErr
    /\ stStarts = [n \in TaskNames |-> 0]
    /\ stPollErr = "none"
    /\ stLastPass = NoPass
    /\ stWindow = << >>

\* showStatus not running
StatusIdle ==
    /\ stPc = "idle"
    /\ finishedStates = {}
    /\ lastState = ZeroState
    /\ breakNextState = FALSE
    /\ stStopped = FALSE
    /\ stExternal = "none"
    /\ stErr = NoErr
    /\ stStarts = [n \in TaskNames |-> 0]
    /\ stPollErr = "none"
    /\ stLastPass = NoPass
    /\ stWindow = << >>

----------------------------------------------------------------------------
(* edit.go, package codespace: the state of the delete command *)

\* strings that the code inspects are sequences of characters
NoRepo == << >>
RepoFilters == {NoRepo, <<"O", "/", "R">>}
RepoFullNames == {<<"o", "/", "r">>, <<"O", "/", "X">>}

\* days are counted from 0; opts.now() is the day Today
Today == MaxKeepDays + 1

\* last_used_at strings: the RFC 3339 text of a day, or text that is no time
Stamp(day) == <<"rfc3339", day>>
LastUsedAts == {<<"yesterday">>} \cup {Stamp(d) : d \in 0..Today}

OrgUsers == {[orgName |-> "", userName |-> ""],
             [orgName |-> "org", userName |-> ""],
             [orgName |-> "org", userName |-> "user"]}

\* deleteOptions, lines 214-226 (orgName and userName are in scope)
DeleteOptions ==
    [deleteAll : BOOLEAN,
     skipConfirm : BOOLEAN,
     codespaceName : {NoName, CodespaceName(1)},
     repoFilter : RepoFilters,
     keepDays : 0..MaxKeepDays,
     scope : OrgUsers,
     isInteractive : BOOLEAN]

\* the command before RunE runs
DeleteStart ==
    /\ dlPc = "cmd"
    /\ dlOpts \in DeleteOptions
    /\ dlCodespaces = << >>
    /\ dlNameFilter = NoName
    /\ dlIndex = 1
    /\ dlToDelete = << >>
    /\ dlTasks = << >>
    /\ dlGroupErr = FALSE
    /\ dlErr = NoErr
    /\ dlPassed = {}
    /\ dlApiCalls = << >>
    /\ dlPrompts = << >>
    /\ dlErrLog = << >>

\* the delete command not running
DeleteIdle ==
    /\ dlPc = "idle"
    /\ dlOpts = [deleteAll |-> FALSE, skipConfirm |-> FALSE, codespaceName |-> NoName,
                 repoFilter |-> NoRepo, keepDays |-> 0,
                 scope |-> [orgName |-> "", userName |-> ""], isInteractive |-> FALSE]
    /\ dlCodespaces = << >>
    /\ dlNameFilter = NoName
    /\ dlIndex = 1
    /\ dlToDelete = << >>
    /\ dlTasks = << >>
    /\ dlGroupErr = FALSE
    /\ dlErr = NoErr
    /\ dlPassed = {}
    /\ dlApiCalls = << >>
    /\ dlPrompts = << >>
    /\ dlErrLog = << >>

----------------------------------------------------------------------------
(* create.go: the state of App.Create *)

\* --repo values; the repository prompt requires an answer (survey.Required)
NoText == ""
RepoNames == {"o/r"}

\* --branch values and branch answers; repository.DefaultBranch
BranchNames == {"dev"}
DefaultBranch == "main"

\* line 19 and line 23
DEVCONTAINER_PROMPT_DEFAULT == "Default Codespaces configuration"
DEFAULT_DEVCONTAINER_DEFINITIONS == <<".devcontainer.json", ".devcontainer/devcontainer.json">>

\* paths of devcontainer.json files: the two default paths and another one
DevContainerPaths ==
    {".devcontainer.json", ".devcontainer/devcontainer.json", ".devcontainer/x/devcontainer.json"}

\* machine names: the i-th machine of a list is named MachineName(i)
MachineName(i) == <<"machine", i>>
NoMachine == << >>
OtherMachine == <<"machine", 0>>    \* a name that no list holds

\* createOptions, lines 60-70: --location, idleTimeout and retentionPeriod
\* are at their zero values
CreateOptionRecords ==
    [repo : {NoText} \cup RepoNames,
     branch : {NoText} \cup BranchNames,
     location : {NoText},
     machine : {NoMachine, MachineName(1), OtherMachine},
     showStatus : BOOLEAN,
     permissionsOptOut : BOOLEAN,
     devContainerPath : {NoText, ".devcontainer/x/devcontainer.json"},
     idleTimeout : {0},
     retentionPeriod : {<< >>}]

\* the options Create is run with: --branch comes with --repo
CreateOptions == {o \in CreateOptionRecords : o.repo = NoText => o.branch = NoText}

\* a.io: whether it can prompt
IOStreams == [canPrompt : BOOLEAN]

\* App.Create before its first step
CreateStart ==
    /\ crPc = "start"
    /\ crOpts \in CreateOptions
    /\ crIO \in IOStreams
    /\ crInputs = [Repository |-> crOpts.repo, Branch |-> crOpts.branch,
                   Location |-> crOpts.location]
    /\ crRepository = << >>
    /\ crBranch = NoText
    /\ crDevContainers = << >>
    /\ crDevContainerPath = NoText
    /\ crMachines = << >>
    /\ crMachine = NoMachine
    /\ crParams = << >>
    /\ crCodespace = << >>
    /\ crAllowURL = NoText
    /\ crErr = NoErr
    /\ crApiCalls = << >>
    /\ crPrompts = << >>
    /\ crBrowsed = << >>
    /\ crStatus = << >>
    /\ crOut = << >>
    /\ crErrOut = << >>

\* Create not running
CreateIdle ==
    /\ crPc = "idle"
    /\ crOpts = [repo |-> NoText, branch |-> NoText, location |-> NoText,
                 machine |-> NoMachine, showStatus |-> FALSE, permissionsOptOut |-> FALSE,
                 devContainerPath |-> NoText, idleTimeout |-> 0, retentionPeriod |-> << >>]
    /\ crIO = [canPrompt |-> FALSE]
    /\ crInputs = [Repository |-> NoText, Branch |-> NoText, Location |-> NoText]
    /\ crRepository = << >>
    /\ crBranch = NoText
    /\ crDevContainers = << >>
    /\ crDevContainerPath = NoText
    /\ crMachines = << >>
    /\ crMachine = NoMachine
    /\ crParams = << >>
    /\ crCodespace = << >>
    /\ crAllowURL = NoText
    /\ crErr = NoErr
    /\ crApiCalls = << >>
    /\ crPrompts = << >>
    /\ crBrowsed = << >>
    /\ crStatus = << >>
    /\ crOut = << >>
    /\ crErrOut = << >>

----------------------------------------------------------------------------
(* root.go: lazyLoadedHTTPClient, data *)

Callers == 1..MaxCallers

\* a nil *http.Client; the clients the factory makes are 1, 2, ...
NilClient == 0

\* &lazyLoadedHTTPClient{factory: f}, and Callers goroutines entering Do
ClientStart ==
    /\ clPc = [g \in Callers |-> "RLock"]
    /\ clMu = [writer |-> 0, readers |-> {}]
    /\ clHttpClient = NilClient
    /\ clLocal = [g \in Callers |-> NilClient]
    /\ clFactoryErr = [g \in Callers |-> FALSE]
    /\ clVisible = [g \in Callers |-> {NilClient}]
    /\ clSent = [g \in Callers |-> << >>]
    /\ clWrites = << >>

\* no goroutine in Do
ClientIdle ==
    /\ clPc = [g \in Callers |-> "idle"]
    /\ clMu = [writer |-> 0, readers |-> {}]
    /\ clHttpClient = NilClient
    /\ clLocal = [g \in Callers |-> NilClient]
    /\ clFactoryErr = [g \in Callers |-> FALSE]
    /\ clVisible = [g \in Callers |-> {NilClient}]
    /\ clSent = [g \in Callers |-> << >>]
    /\ clWrites = << >>

----------------------------------------------------------------------------
(* rebuild.go: App.Rebuild *)

\* App.Rebuild before its first step
RebuildStart ==
    /\ rbPc = "start"
    /\ rbName \in {NoName} \cup CodespaceNames
    /\ rbFetched = << >>
    /\ rbCodespace = << >>
    /\ rbErr = NoErr
    /\ rbCancelled = FALSE
    /\ rbOpened = 0
    /\ rbClosed = 0
    /\ rbRebuilds = 0
    /\ rbOut = << >>

\* App.Rebuild not running
RebuildIdle ==
    /\ rbPc = "idle"
    /\ rbName = NoName
    /\ rbFetched = << >>
    /\ rbCodespace = << >>
    /\ rbErr = NoErr
    /\ rbCancelled = FALSE
    /\ rbOpened = 0
    /\ rbClosed = 0
    /\ rbRebuilds = 0
    /\ rbOut = << >>

\* the caller cancels the context passed to Rebuild
RbCancel ==
    /\ rbPc # "done"
    /\ ~rbCancelled
    /\ rbCancelled' = TRUE
    /\ UNCHANGED <<rbPc, rbName, rbFetched, rbCodespace, rbErr, rbOpened, rbClosed, rbRebuilds, rbOut>>
    /\ UNCHANGED otherThanRebuild

\* lines 37-40, with the codespace named
RbGetCodespace ==
    /\ rbPc = "start"
    /\ rbName # NoName
    /\ \E ok \in CallOutcomes(rbCancelled), c \in RebuildCodespaces(rbName) :
         LET r == getOrChooseCodespace(rbName, [err |-> ~ok, codespace |-> c],
                                       [err |-> TRUE, list |-> << >>], << >>,
                                       [err |-> TRUE, idx |-> 0]) IN
         /\ rbFetched' = r.fetched
         /\ rbCodespace' = r.codespace
         /\ rbErr' = r.err
         /\ rbPc' = IF r.err # NoErr THEN "done" ELSE "resolved"
    /\ UNCHANGED <<rbName, rbCancelled, rbOpened, rbClosed, rbRebuilds, rbOut>>
    /\ UNCHANGED otherThanRebuild

\* lines 37-40, with no name: list, sort, prompt
RbChooseCodespace ==
    /\ rbPc = "start"
    /\ rbName = NoName
    /\ \E ok \in CallOutcomes(rbCancelled), list \in RebuildLists :
       \E sorted \in SortedByCreatedAt(list), answer \in Answers(Len(list)) :
         LET r == getOrChooseCodespace(rbName, [err |-> TRUE, codespace |-> << >>],
                                       [err |-> ~ok, list |-> list], sorted, answer) IN
         /\ rbFetched' = r.fetched
         /\ rbCodespace' = r.codespace
         /\ rbErr' = r.err
         /\ rbPc' = IF r.err # NoErr THEN "done" ELSE "resolved"
    /\ UNCHANGED <<rbName, rbCancelled, rbOpened, rbClosed, rbRebuilds, rbOut>>
    /\ UNCHANGED otherThanRebuild

\* a Rebuild that does not look at the state of the codespace
RbCheckStateIgnored ==
    /\ rbPc = "resolved"
    /\ rbPc' = "connect"
    /\ UNCHANGED <<rbOut, rbErr>>
    /\ UNCHANGED <<rbName, rbFetched, rbCodespace, rbCancelled, rbOpened, rbClosed, rbRebuilds>>
    /\ UNCHANGED otherThanRebuild

\* lines 43-46
RbCheckState ==
    /\ rbPc = "resolved"
    /\ IF rbCodespace[1].State = CodespaceStateRebuilding
       THEN /\ rbOut' = Append(rbOut, <<rbCodespace[1].Name, "is already rebuilding">>)
            /\ rbErr' = NoErr
            /\ rbPc' = "done"
       ELSE /\ rbPc' = "connect"
            /\ UNCHANGED <<rbOut, rbErr>>
    /\ UNCHANGED <<rbName, rbFetched, rbCodespace, rbCancelled, rbOpened, rbClosed, rbRebuilds>>
    /\ UNCHANGED otherThanRebuild

\* lines 48-52: startLiveShareSession; on success safeClose is deferred
RbStartSession ==
    /\ rbPc = "connect"
    /\ \E ok \in CallOutcomes(rbCancelled) :
         IF ok
         THEN /\ rbOpened' = rbOpened + 1
              /\ rbPc' = "session"
              /\ UNCHANGED rbErr
         ELSE /\ rbErr' = Err("starting Live Share session", << >>)
              /\ rbPc' = "done"
              /\ UNCHANGED rbOpened
    /\ UNCHANGED <<rbName, rbFetched, rbCodespace, rbCancelled, rbClosed, rbRebuilds, rbOut>>
    /\ UNCHANGED otherThanRebuild

\* a Rebuild that closes the session only after a successful RebuildContainer
RbRebuildContainerCloseOnSuccess ==
    /\ rbPc = "session"
    /\ rbRebuilds' = rbRebuilds + 1
    /\ \E ok \in CallOutcomes(rbCancelled) :
         IF ok
         THEN /\ rbOut' = Append(rbOut, <<rbCodespace[1].Name, "is rebuilding">>)
              /\ rbErr' = NoErr
              /\ rbPc' = "deferred"
         ELSE /\ rbErr' = Err("rebuilding codespace via session", << >>)
              /\ rbPc' = "done"
              /\ UNCHANGED rbOut
    /\ UNCHANGED <<rbName, rbFetched, rbCodespace, rbCancelled, rbOpened, rbClosed>>
    /\ UNCHANGED otherThanRebuild

\* lines 54-60: RebuildContainer, then the return statement
RbRebuildContainer ==
    /\ rbPc = "session"
    /\ rbRebuilds' = rbRebuilds + 1
    /\ \E ok \in CallOutcomes(rbCancelled) :
         IF ok
         THEN /\ rbOut' = Append(rbOut, <<rbCodespace[1].Name, "is rebuilding">>)
              /\ rbErr' = NoErr
         ELSE /\ rbErr' = Err("rebuilding codespace via session", << >>)
              /\ UNCHANGED rbOut
    /\ rbPc' = "deferred"
    /\ UNCHANGED <<rbName, rbFetched, rbCodespace, rbCancelled, rbOpened, rbClosed>>
    /\ UNCHANGED otherThanRebuild

\* safeClose (common.go 195-199): Close, whose error is kept only if err is nil
safeClose(err, closeErr) == IF err = NoErr THEN closeErr ELSE err

\* line 52: the deferred safeClose(session, &err) runs as Rebuild returns
RbDeferredClose ==
    /\ rbPc = "deferred"
    /\ rbClosed' = rbClosed + 1
    /\ \E closeErr \in {NoErr, Err("close", << >>)} :
         rbErr' = safeClose(rbErr, closeErr)
    /\ rbPc' = "done"
    /\ UNCHANGED <<rbName, rbFetched, rbCodespace, rbCancelled, rbOpened, rbRebuilds, rbOut>>
    /\ UNCHANGED otherThanRebuild

NextRebuild ==
    \/ RbCancel
    \/ RbGetCodespace
    \/ RbChooseCodespace
    \/ RbCheckState
    \/ RbStartSession
    \/ RbRebuildContainer
    \/ RbDeferredClose

InitRebuild == RebuildStart /\ StatusIdle /\ DeleteIdle /\ CreateIdle /\ ClientIdle

SpecRebuild == InitRebuild /\ [][NextRebuild]_vars

PendingOperationError(reason) ==
    Err("codespace is disabled while it has a pending operation", reason)

\* C1: a codespace whose pending-operation flag is set, resolved by name or by
\* choice, makes Rebuild fail with the pending-operation error that carries the
\* record's own reason; no session is opened and RebuildContainer is not called.
C1_PendingOperationBlocks ==
    (rbFetched # << >> /\ rbFetched[1].PendingOperation) =>
        /\ rbPc = "done"
        /\ rbCodespace = << >>
        /\ rbErr = PendingOperationError(rbFetched[1].PendingOperationDisabledReason)
        /\ rbOpened = 0
        /\ rbClosed = 0
        /\ rbRebuilds = 0

\* a pending codespace chosen at the prompt, rejected with its second reason
C1_Witness ==
    /\ rbName = NoName
    /\ rbFetched # << >>
    /\ rbFetched[1].PendingOperation
    /\ rbFetched[1].PendingOperationDisabledReason = "Another pending operation"
    /\ rbPc = "done"
    /\ rbErr = PendingOperationError("Another pending operation")

\* C2: a session that Rebuild opened is closed at most once while Rebuild runs
\* and exactly once when it has returned, whether RebuildContainer succeeded,
\* failed or the context was cancelled; when opening failed, Close is not called.
C2_SessionClosedOnce ==
    /\ rbOpened <= 1
    /\ rbClosed <= rbOpened
    /\ rbPc = "done" => rbClosed = rbOpened
    /\ rbErr.kind = "starting Live Share session" => rbClosed = 0 /\ rbOpened = 0
    /\ rbRebuilds > 0 /\ rbPc = "done" => rbClosed = 1

\* Rebuild returned after a cancellation made RebuildContainer fail, session closed
C2_Witness ==
    /\ rbPc = "done"
    /\ rbCancelled
    /\ rbOpened = 1
    /\ rbRebuilds = 1
    /\ rbErr.kind = "rebuilding codespace via session"
    /\ rbClosed = 1

----------------------------------------------------------------------------
(* create.go: App.showStatus *)

\* a poller loop that does not consult the finished-set
RECURSIVE pollerLoopNoSkip(_, _, _)
pollerLoopNoSkip(states, i, st) ==
    IF i > Len(states) THEN st
    ELSE LET state == states[i] IN
         IF state.Name # st.last.Name
         THEN IF state.Status = PostCreateStateRunning
              THEN [st EXCEPT !.started = Append(@, state.Name),
                              !.examined = @ \cup {state.Name},
                              !.inProgress = TRUE,
                              !.last = state]
              ELSE pollerLoopNoSkip(states, i + 1,
                              [st EXCEPT !.started = Append(@, state.Name),
                                         !.examined = @ \cup {state.Name},
                                         !.finished = @ \cup {state.Name},
                                         !.added = Append(@, state.Name)])
         ELSE IF state.Status = PostCreateStateRunning
              THEN [st EXCEPT !.examined = @ \cup {state.Name},
                              !.inProgress = TRUE]
              ELSE pollerLoopNoSkip(states, i + 1,
                              [st EXCEPT !.examined = @ \cup {state.Name},
                                         !.finished = @ \cup {state.Name},
                                         !.added = Append(@, state.Name),
                                         !.last = ZeroState])

\* a poller loop that starts the indicator of every unfinished state it meets,
\* the displayed one included
RECURSIVE pollerLoopRestart(_, _, _)
pollerLoopRestart(states, i, st) ==
    IF i > Len(states) THEN st
    ELSE LET state == states[i] IN
         IF state.Name \in st.finished
         THEN pollerLoopRestart(states, i + 1, [st EXCEPT !.skipped = @ \cup {state.Name}])
         ELSE IF state.Status = PostCreateStateRunning
              THEN [st EXCEPT !.started = Append(@, state.Name),
                              !.examined = @ \cup {state.Name},
                              !.inProgress = TRUE,
                              !.last = state]
              ELSE pollerLoopRestart(states, i + 1,
                              [st EXCEPT !.started = Append(@, state.Name),
                                         !.examined = @ \cup {state.Name},
                                         !.finished = @ \cup {state.Name},
                                         !.added = Append(@, state.Name),
                                         !.last = IF state.Name = st.last.Name
                                                  THEN ZeroState ELSE @])

\* a poller loop that goes on to the next state after one that is running
RECURSIVE pollerLoopScansOn(_, _, _)
pollerLoopScansOn(states, i, st) ==
    IF i > Len(states) THEN st
    ELSE LET state == states[i] IN
         IF state.Name \in st.finished
         THEN pollerLoopScansOn(states, i + 1, [st EXCEPT !.skipped = @ \cup {state.Name}])
         ELSE IF state.Name # st.last.Name
         THEN IF state.Status = PostCreateStateRunning
              THEN pollerLoopScansOn(states, i + 1,
                              [st EXCEPT !.started = Append(@, state.Name),
                                         !.examined = @ \cup {state.Name},
                                         !.inProgress = TRUE,
                                         !.last = state])
              ELSE pollerLoopScansOn(states, i + 1,
                              [st EXCEPT !.started = Append(@, state.Name),
                                         !.examined = @ \cup {state.Name},
                                         !.finished = @ \cup {state.Name},
                                         !.added = Append(@, state.Name)])
         ELSE IF state.Status = PostCreateStateRunning
              THEN pollerLoopScansOn(states, i + 1,
                              [st EXCEPT !.examined = @ \cup {state.Name},
                                         !.inProgress = TRUE])
              ELSE pollerLoopScansOn(states, i + 1,
                              [st EXCEPT !.examined = @ \cup {state.Name},
                                         !.finished = @ \cup {state.Name},
                                         !.added = Append(@, state.Name),
                                         !.last = ZeroState])

\* the for loop of the poller, lines 364-390, from position i of states on;
\* st carries finishedStates, lastState, inProgress and what the pass did
RECURSIVE pollerLoop(_, _, _)
pollerLoop(states, i, st) ==
    IF i > Len(states) THEN st
    ELSE LET state == states[i] IN
         IF state.Name \in st.finished
         THEN pollerLoop(states, i + 1, [st EXCEPT !.skipped = @ \cup {state.Name}])
         ELSE IF state.Name # st.last.Name
         THEN IF state.Status = PostCreateStateRunning
              THEN [st EXCEPT !.started = Append(@, state.Name),
                              !.examined = @ \cup {state.Name},
                              !.inProgress = TRUE,
                              !.last = state]
              ELSE pollerLoop(states, i + 1,
                              [st EXCEPT !.started = Append(@, state.Name),
                                         !.examined = @ \cup {state.Name},
                                         !.finished = @ \cup {state.Name},
                                         !.added = Append(@, state.Name)])
         ELSE IF state.Status = PostCreateStateRunning
              THEN [st EXCEPT !.examined = @ \cup {state.Name},
                              !.inProgress = TRUE]
              ELSE pollerLoop(states, i + 1,
                              [st EXCEPT !.examined = @ \cup {state.Name},
                                         !.finished = @ \cup {state.Name},
                                         !.added = Append(@, state.Name),
                                         !.last = ZeroState])

\* the number of times name n occurs in sequence s
RECURSIVE Occurrences(_, _)
Occurrences(s, n) ==
    IF s = << >> THEN 0
    ELSE (IF Head(s) = n THEN 1 ELSE 0) + Occurrences(Tail(s), n)

Min(a, b) == IF a < b THEN a ELSE b

\* the last two elements of s with x appended
Shift(s, x) == IF Len(s) < 2 THEN Append(s, x) ELSE <<s[Len(s)], x>>

\* one call of the poller, lines 362-399: PollPostCreateStates reports states
StPollPass ==
    /\ stPc = "polling"
    /\ ~stStopped
    /\ stExternal = "none"
    /\ \E states \in PollResponses :
         LET r == pollerLoop(states, 1,
                             [finished |-> finishedStates, last |-> lastState,
                              inProgress |-> FALSE, started |-> << >>,
                              examined |-> {}, skipped |-> {}, added |-> << >>]) IN
         /\ finishedStates' = r.finished
         /\ lastState' = r.last
         /\ stStarts' = [n \in TaskNames |->
                            Min(MaxStarts, stStarts[n] + Occurrences(r.started, n))]
         /\ stLastPass' = [tick |-> ~stLastPass.tick, started |-> r.started,
                            examined |-> r.examined, skipped |-> r.skipped,
                            states |-> states, added |-> r.added,
                            inProgress |-> r.inProgress]
         /\ stWindow' = Shift(stWindow, r.inProgress)
         /\ IF ~r.inProgress
            THEN IF breakNextState
                 THEN stStopped' = TRUE /\ UNCHANGED breakNextState
                 ELSE breakNextState' = TRUE /\ UNCHANGED stStopped
            ELSE UNCHANGED <<breakNextState, stStopped>>
    /\ UNCHANGED <<stPc, stExternal, stErr, stPollErr>>
    /\ UNCHANGED otherThanStatus

\* the context the caller gave showStatus is cancelled or its deadline passes
StExternalCancel ==
    /\ stPc = "polling"
    /\ stExternal = "none"
    /\ \E how \in {"canceled", "deadline"} : stExternal' = how
    /\ UNCHANGED <<stPc, finishedStates, lastState, breakNextState, stStopped, stErr,
                   stStarts, stPollErr, stLastPass, stWindow>>
    /\ UNCHANGED otherThanStatus

\* a result that stays an error when the poller itself stopped the polling
showStatusResultNeverNil(isCanceled, armed) ==
    Err("failed to poll state changes from codespace", << >>)

\* lines 402-410: the result of showStatus for the error of PollPostCreateStates
\* (isCanceled: errors.Is(err, context.Canceled))
showStatusResult(isCanceled, armed) ==
    IF isCanceled /\ armed THEN NoErr
    ELSE Err("failed to poll state changes from codespace", << >>)

\* line 401: PollPostCreateStates returns because its context is done; the
\* context's error is that of whichever ended it first
StPollCancelled ==
    /\ stPc = "polling"
    /\ stStopped \/ stExternal # "none"
    /\ stPollErr' = IF stStopped \/ stExternal = "canceled" THEN "canceled" ELSE "deadline"
    /\ stErr' = showStatusResult(stPollErr' = "canceled", breakNextState)
    /\ stPc' = "done"
    /\ UNCHANGED <<finishedStates, lastState, breakNextState, stStopped, stExternal,
                   stStarts, stLastPass, stWindow>>
    /\ UNCHANGED otherThanStatus

\* line 401: PollPostCreateStates fails for another reason (connection, query)
StPollFails ==
    /\ stPc = "polling"
    /\ stPollErr' = "failed"
    /\ stErr' = showStatusResult(FALSE, breakNextState)
    /\ stPc' = "done"
    /\ UNCHANGED <<finishedStates, lastState, breakNextState, stStopped, stExternal,
                   stStarts, stLastPass, stWindow>>
    /\ UNCHANGED otherThanStatus

NextStatus ==
    \/ StPollPass
    \/ StExternalCancel
    \/ StPollCancelled
    \/ StPollFails

InitStatus == StatusStart /\ RebuildIdle /\ DeleteIdle /\ CreateIdle /\ ClientIdle

SpecStatus == InitStatus /\ [][NextStatus]_vars

\* PollPostCreateStates calls the poller at every tick of its ticker until its
\* context is done, and returns once the context is done
SpecStatusFair == SpecStatus /\ WF_vars(StPollPass) /\ WF_vars(StPollCancelled)

Range(s) == {s[k] : k \in 1..Len(s)}

\* a step that is a pass of the poller
IsPass == stLastPass'.tick # stLastPass.tick

C4_FinishedNeverReexamined ==
    [][/\ finishedStates \subseteq finishedStates'
       /\ \A n \in finishedStates :
            /\ stStarts'[n] = stStarts[n]
            /\ IsPass => n \notin stLastPass'.examined
            /\ IsPass => n \notin Range(stLastPass'.started)]_vars

\* the remote reported the finished "a" again and the pass skipped it
C4_Witness ==
    /\ "a" \in finishedStates
    /\ "a" \in stLastPass.skipped
    /\ "a" \notin stLastPass.examined
    /\ stStarts["a"] = 1

\* C5 as stated: polling is stopped only when the last two passes both had
\* nothing in progress.
C5_StopsAfterTwoConsecutiveIdlePasses ==
    stStopped => stWindow = <<FALSE, FALSE>>

\* C6 as stated: showStatus succeeds when its own stop ended the polling, and
\* fails whenever the caller's context ended it.
C6_ExternalCancellationIsAnError ==
    /\ (stPc = "done" /\ stStopped /\ stExternal = "none" /\ stPollErr = "canceled")
          => stErr = NoErr
    /\ (stPc = "done" /\ ~stStopped /\ stExternal # "none" /\ stPollErr # "failed")
          => stErr # NoErr

----------------------------------------------------------------------------
(* edit.go, package codespace: newDeleteCmd and App.Delete *)

\* the fields of a record that decide what Delete does under opts vary (the
\* git status always, to tell a skipped confirmation from one that was not
\* needed); the others stay at their zero values
DeleteCodespaces(name, opts) ==
    [Name : {name},
     Repository : IF opts.repoFilter = NoRepo THEN {NoRepo} ELSE RepoFullNames,
     LastUsedAt : IF opts.keepDays = 0 THEN {<< >>} ELSE LastUsedAts,
     HasUncommitedChanges : BOOLEAN,
     HasUnpushedChanges : BOOLEAN,
     CreatedAt : IF opts.deleteAll \/ opts.repoFilter # NoRepo
                 THEN {"2023-01-01"} ELSE CreatedAts]

\* the lists ListCodespaces may return: at most MaxCodespaces records, the
\* i-th named CodespaceName(i)
DeleteLists(opts) ==
    UNION {{l \in [1..n -> UNION {DeleteCodespaces(CodespaceName(i), opts) : i \in 1..n}] :
               \A i \in 1..n : l[i].Name = CodespaceName(i)} : n \in 0..MaxCodespaces}

\* a control-plane call as the log records it
ApiCall(op, name, scope) == [op |-> op, name |-> name, scope |-> scope]

\* strings.EqualFold on the characters used here
FoldChar(ch) ==
    CASE ch = "O" -> "o"
      [] ch = "R" -> "r"
      [] ch = "X" -> "x"
      [] OTHER -> ch
EqualFold(a, b) ==
    /\ Len(a) = Len(b)
    /\ \A k \in 1..Len(a) : FoldChar(a[k]) = FoldChar(b[k])

\* time.Parse(time.RFC3339, text)
ParseRFC3339(text) ==
    IF Len(text) = 2 /\ text[1] = "rfc3339"
    THEN [ok |-> TRUE, t |-> text[2]]
    ELSE [ok |-> FALSE, t |-> 0]

\* line 313: opts.now().AddDate(0, 0, -int(opts.keepDays))
lastUpdatedCutoffTime(opts) == Today - opts.keepDays

\* a comparison that also holds at the cutoff itself
AtOrAfter(t, u) == t >= u

\* time.Time.After
After(t, u) == t > u

\* common.go 279-281
hasUnsavedChanges(c) == c.HasUncommitedChanges \/ c.HasUnpushedChanges

\* whether confirmDeletion asks the prompter about c
confirmationPrompts(c, isInteractive) == hasUnsavedChanges(c) /\ isInteractive

\* a confirmation that takes any answer of the prompter for a yes
confirmDeletionAnyAnswer(c, isInteractive, answer) ==
    IF ~hasUnsavedChanges(c)
    THEN [confirmed |-> TRUE, err |-> NoErr]
    ELSE IF ~isInteractive
    THEN [confirmed |-> FALSE,
          err |-> Err("codespace has unsaved changes (use --force to override)", c.Name)]
    ELSE IF answer = "fail"
    THEN [confirmed |-> FALSE, err |-> Err("failed to prompt", << >>)]
    ELSE [confirmed |-> TRUE, err |-> NoErr]

\* a confirmation that, without a terminal, drops the record and goes on
confirmDeletionDropsUnsaved(c, isInteractive, answer) ==
    IF ~hasUnsavedChanges(c)
    THEN [confirmed |-> TRUE, err |-> NoErr]
    ELSE IF ~isInteractive
    THEN [confirmed |-> FALSE, err |-> NoErr]
    ELSE IF answer = "fail"
    THEN [confirmed |-> FALSE, err |-> Err("failed to prompt", << >>)]
    ELSE [confirmed |-> answer = "yes", err |-> NoErr]

\* confirmDeletion, lines 371-380; answer is what p.Confirm returns
confirmDeletion(c, isInteractive, answer) ==
    IF ~hasUnsavedChanges(c)
    THEN [confirmed |-> TRUE, err |-> NoErr]
    ELSE IF ~isInteractive
    THEN [confirmed |-> FALSE,
          err |-> Err("codespace has unsaved changes (use --force to override)", c.Name)]
    ELSE IF answer = "fail"
    THEN [confirmed |-> FALSE, err |-> Err("failed to prompt", << >>)]
    ELSE [confirmed |-> answer = "yes", err |-> NoErr]

\* a filter loop that skips a record whose last_used_at is no time
filterIterationSkipsUnparseable(c, opts, nameFilter, answer) ==
    IF nameFilter # NoName /\ c.Name # nameFilter
    THEN [passed |-> FALSE, prompted |-> FALSE, keep |-> FALSE, err |-> NoErr]
    ELSE IF opts.repoFilter # NoRepo /\ ~EqualFold(c.Repository, opts.repoFilter)
    THEN [passed |-> FALSE, prompted |-> FALSE, keep |-> FALSE, err |-> NoErr]
    ELSE IF opts.keepDays > 0 /\ ~ParseRFC3339(c.LastUsedAt).ok
    THEN [passed |-> FALSE, prompted |-> FALSE, keep |-> FALSE, err |-> NoErr]
    ELSE IF opts.keepDays > 0
            /\ After(ParseRFC3339(c.LastUsedAt).t, lastUpdatedCutoffTime(opts))
    THEN [passed |-> FALSE, prompted |-> FALSE, keep |-> FALSE, err |-> NoErr]
    ELSE IF opts.skipConfirm
    THEN [passed |-> TRUE, prompted |-> FALSE, keep |-> TRUE, err |-> NoErr]
    ELSE LET r == confirmDeletion(c, opts.isInteractive, answer) IN
         IF r.err # NoErr
         THEN [passed |-> TRUE, prompted |-> confirmationPrompts(c, opts.isInteractive),
               keep |-> FALSE, err |-> Err("unable to confirm", r.err)]
         ELSE [passed |-> TRUE, prompted |-> confirmationPrompts(c, opts.isInteractive),
               keep |-> r.confirmed, err |-> NoErr]

\* one iteration of the filter loop, lines 315-339, on record c:
\* an iteration that asks for the confirmation before it looks at the filters
filterIterationConfirmsFirst(c, opts, nameFilter, answer) ==
    LET asked == ~opts.skipConfirm /\ confirmationPrompts(c, opts.isInteractive)
        r == IF opts.skipConfirm THEN [confirmed |-> TRUE, err |-> NoErr]
             ELSE confirmDeletion(c, opts.isInteractive, answer)
    IN  IF r.err # NoErr
        THEN [passed |-> FALSE, prompted |-> asked, keep |-> FALSE,
              err |-> Err("unable to confirm", r.err)]
        ELSE IF nameFilter # NoName /\ c.Name # nameFilter
        THEN [passed |-> FALSE, prompted |-> asked, keep |-> FALSE, err |-> NoErr]
        ELSE IF opts.repoFilter # NoRepo /\ ~EqualFold(c.Repository, opts.repoFilter)
        THEN [passed |-> FALSE, prompted |-> asked, keep |-> FALSE, err |-> NoErr]
        ELSE IF opts.keepDays > 0 /\ ~ParseRFC3339(c.LastUsedAt).ok
        THEN [passed |-> FALSE, prompted |-> asked, keep |-> FALSE,
              err |-> Err("error parsing last_used_at timestamp", c.LastUsedAt)]
        ELSE IF opts.keepDays > 0
                /\ After(ParseRFC3339(c.LastUsedAt).t, lastUpdatedCutoffTime(opts))
        THEN [passed |-> FALSE, prompted |-> asked, keep |-> FALSE, err |-> NoErr]
        ELSE [passed |-> TRUE, prompted |-> asked, keep |-> r.confirmed, err |-> NoErr]

\* passed: c got past the three filters; keep: c is appended to
\* codespacesToDelete; err: the error the loop returns with
filterIteration(c, opts, nameFilter, answer) ==
    IF nameFilter # NoName /\ c.Name # nameFilter
    THEN [passed |-> FALSE, prompted |-> FALSE, keep |-> FALSE, err |-> NoErr]
    ELSE IF opts.repoFilter # NoRepo /\ ~EqualFold(c.Repository, opts.repoFilter)
    THEN [passed |-> FALSE, prompted |-> FALSE, keep |-> FALSE, err |-> NoErr]
    ELSE IF opts.keepDays > 0 /\ ~ParseRFC3339(c.LastUsedAt).ok
    THEN [passed |-> FALSE, prompted |-> FALSE, keep |-> FALSE,
          err |-> Err("error parsing last_used_at timestamp", c.LastUsedAt)]
    ELSE IF opts.keepDays > 0
            /\ After(ParseRFC3339(c.LastUsedAt).t, lastUpdatedCutoffTime(opts))
    THEN [passed |-> FALSE, prompted |-> FALSE, keep |-> FALSE, err |-> NoErr]
    ELSE IF opts.skipConfirm
    THEN [passed |-> TRUE, prompted |-> FALSE, keep |-> TRUE, err |-> NoErr]
    ELSE LET r == confirmDeletion(c, opts.isInteractive, answer) IN
         IF r.err # NoErr
         THEN [passed |-> TRUE, prompted |-> confirmationPrompts(c, opts.isInteractive),
               keep |-> FALSE, err |-> Err("unable to confirm", r.err)]
         ELSE [passed |-> TRUE, prompted |-> confirmationPrompts(c, opts.isInteractive),
               keep |-> r.confirmed, err |-> NoErr]

\* flag checks that let --all pass together with --repo
flagErrorOrgOnly(opts) ==
    IF opts.scope.orgName # "" /\ opts.codespaceName # NoName
       /\ opts.scope.userName = ""
    THEN Err("using --org with --codespace requires --user", << >>)
    ELSE NoErr

\* RunE, lines 252-260: the flag checks made before App.Delete is called
flagError(opts) ==
    IF opts.deleteAll /\ opts.repoFilter # NoRepo
    THEN Err("both --all and --repo is not supported", << >>)
    ELSE IF opts.scope.orgName # "" /\ opts.codespaceName # NoName
            /\ opts.scope.userName = ""
    THEN Err("using --org with --codespace requires --user", << >>)
    ELSE NoErr

\* RunE, lines 252-260, and line 276
DlRunE ==
    /\ dlPc = "cmd"
    /\ IF flagError(dlOpts) # NoErr
       THEN /\ dlErr' = flagError(dlOpts)
            /\ dlPc' = "done"
            /\ UNCHANGED dlNameFilter
       ELSE /\ dlNameFilter' = dlOpts.codespaceName
            /\ dlPc' = "fetch"
            /\ UNCHANGED dlErr
    /\ UNCHANGED <<dlOpts, dlCodespaces, dlIndex, dlToDelete, dlTasks, dlGroupErr,
                   dlPassed, dlApiCalls, dlPrompts, dlErrLog>>
    /\ UNCHANGED otherThanDelete

\* lines 277-285: no name given, ListCodespaces
DlListCodespaces ==
    /\ dlPc = "fetch"
    /\ dlNameFilter = NoName
    /\ dlApiCalls' = Append(dlApiCalls, ApiCall("ListCodespaces", NoName, dlOpts.scope))
    /\ \E ok \in BOOLEAN, list \in DeleteLists(dlOpts) :
         IF ok
         THEN /\ dlCodespaces' = list
              /\ dlPc' = IF ~dlOpts.deleteAll /\ dlOpts.repoFilter = NoRepo
                         THEN "choose" ELSE "filter"
              /\ UNCHANGED dlErr
         ELSE /\ dlErr' = Err("error getting codespaces", << >>)
              /\ dlPc' = "done"
              /\ UNCHANGED dlCodespaces
    /\ UNCHANGED <<dlOpts, dlNameFilter, dlIndex, dlToDelete, dlTasks, dlGroupErr,
                   dlPassed, dlPrompts, dlErrLog>>
    /\ UNCHANGED otherThanDelete

\* lines 285-292: chooseCodespaceFromList sorts codespaces in place and prompts
DlChooseCodespace ==
    /\ dlPc = "choose"
    /\ \E sorted \in SortedByCreatedAt(dlCodespaces), answer \in Answers(Len(dlCodespaces)) :
         LET r == chooseCodespaceFromList(dlCodespaces, sorted, answer) IN
         /\ dlCodespaces' = sorted
         /\ dlPrompts' = IF Len(dlCodespaces) = 0 THEN dlPrompts
                         ELSE Append(dlPrompts, [kind |-> "choose", options |-> sorted,
                                                 answer |-> answer])
         /\ IF r.err # NoErr
            THEN /\ dlErr' = Err("error choosing codespace", r.err.kind)
                 /\ dlPc' = "done"
                 /\ UNCHANGED dlNameFilter
            ELSE /\ dlNameFilter' = r.codespace[1].Name
                 /\ dlPc' = "filter"
                 /\ UNCHANGED dlErr
    /\ UNCHANGED <<dlOpts, dlIndex, dlToDelete, dlTasks, dlGroupErr, dlPassed,
                   dlApiCalls, dlErrLog>>
    /\ UNCHANGED otherThanDelete

\* lines 293-310: a name given, GetCodespace or GetOrgMemberCodespace
DlGetCodespace ==
    /\ dlPc = "fetch"
    /\ dlNameFilter # NoName
    /\ dlApiCalls' = Append(dlApiCalls,
            ApiCall(IF dlOpts.scope.orgName = "" \/ dlOpts.scope.userName = ""
                    THEN "GetCodespace" ELSE "GetOrgMemberCodespace",
                    dlNameFilter, dlOpts.scope))
    /\ \E ok \in BOOLEAN, c \in DeleteCodespaces(dlNameFilter, dlOpts) :
         IF ok
         THEN /\ dlCodespaces' = <<c>>
              /\ dlPc' = "filter"
              /\ UNCHANGED dlErr
         ELSE /\ dlErr' = Err("error fetching codespace information", << >>)
              /\ dlPc' = "done"
              /\ UNCHANGED dlCodespaces
    /\ UNCHANGED <<dlOpts, dlNameFilter, dlIndex, dlToDelete, dlTasks, dlGroupErr,
                   dlPassed, dlPrompts, dlErrLog>>
    /\ UNCHANGED otherThanDelete

\* what the prompter may answer when it is asked about c
ConfirmAnswers(c, opts) ==
    IF ~opts.skipConfirm /\ confirmationPrompts(c, opts.isInteractive)
    THEN {"yes", "no", "fail"} ELSE {"none"}

\* lines 314-340: one iteration of the filter loop
DlFilterIteration ==
    /\ dlPc = "filter"
    /\ dlIndex <= Len(dlCodespaces)
    /\ LET c == dlCodespaces[dlIndex] IN
       \E answer \in ConfirmAnswers(c, dlOpts) :
         LET r == filterIteration(c, dlOpts, dlNameFilter, answer) IN
         /\ dlPassed' = IF r.passed THEN dlPassed \cup {dlIndex} ELSE dlPassed
         /\ dlPrompts' = IF r.prompted
                         THEN Append(dlPrompts, [kind |-> "confirm", options |-> <<c>>,
                                                 answer |-> answer])
                         ELSE dlPrompts
         /\ dlToDelete' = IF r.keep THEN Append(dlToDelete, c) ELSE dlToDelete
         /\ IF r.err # NoErr
            THEN dlErr' = r.err /\ dlPc' = "done" /\ UNCHANGED dlIndex
            ELSE dlIndex' = dlIndex + 1 /\ UNCHANGED <<dlErr, dlPc>>
    /\ UNCHANGED <<dlOpts, dlCodespaces, dlNameFilter, dlTasks, dlGroupErr,
                   dlApiCalls, dlErrLog>>
    /\ UNCHANGED otherThanDelete

\* a Delete that returns nil when nothing is left to delete
DlFanOutSilent ==
    /\ dlPc = "filter"
    /\ dlIndex > Len(dlCodespaces)
    /\ IF Len(dlToDelete) = 0
       THEN /\ dlErr' = NoErr
            /\ dlPc' = "done"
            /\ UNCHANGED dlTasks
       ELSE /\ dlTasks' = [k \in 1..Len(dlToDelete) |-> [pc |-> "ready", failed |-> FALSE]]
            /\ dlPc' = "wait"
            /\ UNCHANGED dlErr
    /\ UNCHANGED <<dlOpts, dlCodespaces, dlNameFilter, dlIndex, dlToDelete, dlGroupErr,
                   dlPassed, dlApiCalls, dlPrompts, dlErrLog>>
    /\ UNCHANGED otherThanDelete

\* lines 342-363: after the loop, either nothing to delete or one goroutine
\* per record of codespacesToDelete
DlFanOut ==
    /\ dlPc = "filter"
    /\ dlIndex > Len(dlCodespaces)
    /\ IF Len(dlToDelete) = 0
       THEN /\ dlErr' = Err("no codespaces to delete", << >>)
            /\ dlPc' = "done"
            /\ UNCHANGED dlTasks
       ELSE /\ dlTasks' = [k \in 1..Len(dlToDelete) |-> [pc |-> "ready", failed |-> FALSE]]
            /\ dlPc' = "wait"
            /\ UNCHANGED dlErr
    /\ UNCHANGED <<dlOpts, dlCodespaces, dlNameFilter, dlIndex, dlToDelete, dlGroupErr,
                   dlPassed, dlApiCalls, dlPrompts, dlErrLog>>
    /\ UNCHANGED otherThanDelete

\* line 357: goroutine k calls DeleteCodespace for its own codespaceName
DlTaskDelete(k) ==
    /\ dlPc = "wait"
    /\ k \in DOMAIN dlTasks
    /\ dlTasks[k].pc = "ready"
    /\ dlApiCalls' = Append(dlApiCalls,
                            ApiCall("DeleteCodespace", dlToDelete[k].Name, dlOpts.scope))
    /\ \E ok \in BOOLEAN :
         dlTasks' = [dlTasks EXCEPT ![k] = [pc |-> "called", failed |-> ~ok]]
    /\ UNCHANGED <<dlPc, dlOpts, dlCodespaces, dlNameFilter, dlIndex, dlToDelete,
                   dlGroupErr, dlErr, dlPassed, dlPrompts, dlErrLog>>
    /\ UNCHANGED otherThanDelete

\* lines 357-361: goroutine k logs its failure and returns; the errgroup keeps
\* the first error returned to it
DlTaskReturn(k) ==
    /\ dlPc = "wait"
    /\ k \in DOMAIN dlTasks
    /\ dlTasks[k].pc = "called"
    /\ dlErrLog' = IF dlTasks[k].failed THEN Append(dlErrLog, dlToDelete[k].Name)
                   ELSE dlErrLog
    /\ dlGroupErr' = (dlGroupErr \/ dlTasks[k].failed)
    /\ dlTasks' = [dlTasks EXCEPT ![k].pc = "done"]
    /\ UNCHANGED <<dlPc, dlOpts, dlCodespaces, dlNameFilter, dlIndex, dlToDelete,
                   dlErr, dlPassed, dlApiCalls, dlPrompts>>
    /\ UNCHANGED otherThanDelete

\* a Wait that returns as soon as one goroutine has returned an error
DlWaitFirstError ==
    /\ dlPc = "wait"
    /\ \/ \A k \in 1..Len(dlTasks) : dlTasks[k].pc = "done"
       \/ dlGroupErr
    /\ dlErr' = IF dlGroupErr THEN Err("some codespaces failed to delete", << >>)
                ELSE NoErr
    /\ dlPc' = "done"
    /\ UNCHANGED <<dlOpts, dlCodespaces, dlNameFilter, dlIndex, dlToDelete, dlTasks,
                   dlGroupErr, dlPassed, dlApiCalls, dlPrompts, dlErrLog>>
    /\ UNCHANGED otherThanDelete

\* lines 365-368: g.Wait returns once every goroutine has returned
DlWait ==
    /\ dlPc = "wait"
    /\ \A k \in 1..Len(dlTasks) : dlTasks[k].pc = "done"
    /\ dlErr' = IF dlGroupErr THEN Err("some codespaces failed to delete", << >>)
                ELSE NoErr
    /\ dlPc' = "done"
    /\ UNCHANGED <<dlOpts, dlCodespaces, dlNameFilter, dlIndex, dlToDelete, dlTasks,
                   dlGroupErr, dlPassed, dlApiCalls, dlPrompts, dlErrLog>>
    /\ UNCHANGED otherThanDelete

NextDelete ==
    \/ DlRunE
    \/ DlListCodespaces
    \/ DlChooseCodespace
    \/ DlGetCodespace
    \/ DlFilterIteration
    \/ DlFanOut
    \/ \E k \in 1..MaxCodespaces : DlTaskDelete(k)
    \/ \E k \in 1..MaxCodespaces : DlTaskReturn(k)
    \/ DlWait

InitDelete == DeleteStart /\ RebuildIdle /\ StatusIdle /\ CreateIdle /\ ClientIdle

SpecDelete == InitDelete /\ [][NextDelete]_vars

\* the DeleteCodespace calls issued so far
DeleteCalls == SelectSeq(dlApiCalls, LAMBDA call : call.op = "DeleteCodespace")

\* the goroutines whose DeleteCodespace call failed
FailedTasks == {k \in DOMAIN dlTasks : dlTasks[k].failed}

SomeFailed == Err("some codespaces failed to delete", << >>)
NothingToDelete == Err("no codespaces to delete", << >>)

\* C7: with N records in codespacesToDelete of which K fail to delete, Delete
\* returns only after N DeleteCodespace calls, one per record and under that
\* record's name, have all finished; the K failures are each logged once with
\* the record's name; the result is the aggregate error exactly when K > 0.
C7_FanOutCompletes ==
    /\ Len(DeleteCalls) <= Len(dlToDelete)
    /\ dlPc \notin {"wait", "done"} => DeleteCalls = << >>
    /\ (dlPc = "done" /\ dlTasks # << >>) =>
          /\ Len(dlTasks) = Len(dlToDelete)
          /\ \A k \in DOMAIN dlTasks : dlTasks[k].pc = "done"
          /\ Len(DeleteCalls) = Len(dlToDelete)
          /\ \A k \in DOMAIN dlToDelete :
                /\ Cardinality({j \in DOMAIN DeleteCalls :
                        DeleteCalls[j] = ApiCall("DeleteCodespace", dlToDelete[k].Name,
                                                 dlOpts.scope)}) = 1
                /\ Occurrences(dlErrLog, dlToDelete[k].Name)
                      = IF k \in FailedTasks THEN 1 ELSE 0
          /\ Len(dlErrLog) = Cardinality(FailedTasks)
          /\ dlErr = IF FailedTasks # {} THEN SomeFailed ELSE NoErr

\* two records deleted concurrently, the first call failed, the second succeeded
C7_Witness ==
    /\ dlPc = "done"
    /\ Len(dlToDelete) = 2
    /\ FailedTasks = {1}
    /\ Len(DeleteCalls) = 2
    /\ DeleteCalls[1].name = dlToDelete[1].Name
    /\ dlErrLog = <<dlToDelete[1].Name>>
    /\ dlErr = SomeFailed

Lower(text) == [k \in 1..Len(text) |-> FoldChar(text[k])]

NameMatches(c) == dlNameFilter = NoName \/ c.Name = dlNameFilter
RepoMatches(c) ==
    dlOpts.repoFilter = NoRepo \/ Lower(c.Repository) = Lower(dlOpts.repoFilter)
UsedLongAgo(c) ==
    dlOpts.keepDays = 0
    \/ \E d \in 0..Today : c.LastUsedAt = Stamp(d) /\ d <= Today - dlOpts.keepDays

\* C8: the records the filter loop lets through are those that satisfy every
\* predicate that is set: name equal to the name filter, repository equal to
\* the repository filter ignoring case, last use no later than keepDays days
\* before now (the cutoff day itself included).
C8_FiltersIntersect ==
    \A k \in DOMAIN dlCodespaces :
        LET c == dlCodespaces[k]
            all == NameMatches(c) /\ RepoMatches(c) /\ UsedLongAgo(c) IN
        /\ k \in dlPassed => all
        /\ k < dlIndex => (k \in dlPassed <=> all)

\* two records of the filtered repository (matched ignoring case): the one
\* last used on the cutoff day passes, the one used a day later does not
C8_Witness ==
    /\ dlOpts.keepDays = 1
    /\ dlOpts.repoFilter # NoRepo
    /\ Len(dlCodespaces) = 2
    /\ dlIndex = 3
    /\ dlCodespaces[1].Repository = <<"o", "/", "r">>
    /\ dlCodespaces[2].Repository = <<"o", "/", "r">>
    /\ dlCodespaces[1].LastUsedAt = Stamp(Today - 1)
    /\ dlCodespaces[2].LastUsedAt = Stamp(Today)
    /\ dlPassed = {1}

\* C9: when the filter loop ends with nothing in codespacesToDelete, Delete
\* returns the error "no codespaces to delete" and calls nothing; Delete
\* issues no DeleteCodespace call while codespacesToDelete is empty, and it
\* returns nil only after at least one DeleteCodespace call.
C9_EmptyIsAnError ==
    /\ [](dlToDelete = << >> => DeleteCalls = << >>)
    /\ []((dlPc = "done" /\ dlErr = NoErr) => DeleteCalls # << >>)
    /\ [][(dlPc = "filter" /\ dlIndex > Len(dlCodespaces) /\ dlToDelete = << >>)
            => (dlPc' = "done" /\ dlErr' = NothingToDelete
                /\ dlApiCalls' = dlApiCalls)]_vars

\* two records passed the filters, both were declined at the prompt
C9_Witness ==
    /\ dlPc = "done"
    /\ dlErr = NothingToDelete
    /\ dlPassed = {1, 2}
    /\ Len(dlPrompts) = 2
    /\ dlToDelete = << >>
    /\ DeleteCalls = << >>

IsFlagError(e) ==
    e.kind \in {"both --all and --repo is not supported",
                "using --org with --codespace requires --user"}

Count(b) == IF b THEN 1 ELSE 0

\* C10 as stated: a request with more than one of name, repository filter and
\* --all, or with a name and a repository or age filter, is rejected as a usage
\* error before any control-plane call.
C10_ConflictingSelectionRejected ==
    LET o == dlOpts
        conflict ==
            \/ Count(o.codespaceName # NoName) + Count(o.repoFilter # NoRepo)
                 + Count(o.deleteAll) > 1
            \/ o.codespaceName # NoName /\ (o.repoFilter # NoRepo \/ o.keepDays > 0) IN
    (conflict /\ dlPc \notin {"idle", "cmd"}) =>
        (dlPc = "done" /\ IsFlagError(dlErr) /\ dlApiCalls = << >>)

\* C10, amended: a request with both --all and a repository filter (or with an
\* organization and a name but no user) is rejected as a usage error before
\* any control-plane call; every other request with a name, whatever other
\* selection or filter it sets, is accepted and starts by fetching that record.
C10_OnlyAllWithRepoRejected ==
    LET o == dlOpts
        rejected ==
            \/ o.deleteAll /\ o.repoFilter # NoRepo
            \/ o.scope.orgName # "" /\ o.codespaceName # NoName /\ o.scope.userName = "" IN
    /\ (rejected /\ dlPc \notin {"idle", "cmd"}) =>
          (dlPc = "done" /\ IsFlagError(dlErr) /\ dlApiCalls = << >>)
    /\ (~rejected /\ o.codespaceName # NoName /\ dlPc \notin {"idle", "cmd", "fetch"}) =>
          /\ ~IsFlagError(dlErr)
          /\ dlApiCalls # << >>
          /\ dlApiCalls[1].op \in {"GetCodespace", "GetOrgMemberCodespace"}
          /\ dlApiCalls[1].name = o.codespaceName

\* a named codespace deleted although a repository filter and an age filter
\* were given with the name
C10_Witness ==
    /\ dlOpts.codespaceName # NoName
    /\ dlOpts.repoFilter # NoRepo
    /\ dlOpts.keepDays > 0
    /\ dlPc = "done"
    /\ dlErr = NoErr
    /\ Len(DeleteCalls) = 1

----------------------------------------------------------------------------
(* create.go: App.Create *)

\* a control-plane call of Create as the log records it, with whether it failed
CreateCall(op, args, failed) == [op |-> op, args |-> args, failed |-> failed]

\* a prompt of Create as the log records it
CreatePrompt(kind, options, answer) == [kind |-> kind, options |-> options, answer |-> answer]

\* what ask leaves in the response: nothing when it fails, else one of texts
AskAnswers(texts) == {[err |-> TRUE, text |-> NoText]} \cup {[err |-> FALSE, text |-> t] : t \in texts}

\* getRepoSuggestions, lines 474-487, as the repository prompt may call it
\* while the user types: not at all, or once with or without success
RepoSuggestions == {"none", "ok", "failed"}

\* os.Getenv("VSCS_LOCATION"); VSCS_TARGET and VSCS_TARGET_URL are unset
VscsLocations == {NoText, "WestUs2"}
VscsTarget == NoText
VscsTargetUrl == NoText

\* lines 134-136
locationOrOverride(location, vscsLocation) ==
    IF location = NoText /\ vscsLocation # NoText THEN vscsLocation ELSE location

\* lines 100-136: the environment is read, and the repository is prompted for
\* when --repo was not given
CrAskRepository ==
    /\ crPc = "start"
    /\ \E vscsLocation \in VscsLocations :
       IF crInputs.Repository = NoText
       THEN \E answer \in AskAnswers(RepoNames), suggest \in RepoSuggestions :
              /\ crPrompts' = Append(crPrompts, CreatePrompt("repository", << >>, answer))
              /\ crApiCalls' = IF suggest = "none" \/ answer.err THEN crApiCalls
                               ELSE Append(crApiCalls,
                                           CreateCall("GetCodespaceRepoSuggestions", << >>,
                                                      suggest = "failed"))
              /\ IF answer.err
                 THEN /\ crErr' = Err("failed to prompt", << >>)
                      /\ crPc' = "done"
                      /\ UNCHANGED crInputs
                 ELSE /\ crInputs' = [crInputs EXCEPT
                                        !.Repository = answer.text,
                                        !.Location = locationOrOverride(@, vscsLocation)]
                      /\ crPc' = "getRepository"
                      /\ UNCHANGED crErr
       ELSE /\ crInputs' = [crInputs EXCEPT
                              !.Location = locationOrOverride(@, vscsLocation)]
            /\ crPc' = "getRepository"
            /\ UNCHANGED <<crPrompts, crApiCalls, crErr>>
    /\ UNCHANGED <<crOpts, crIO, crRepository, crBranch, crDevContainers,
                   crDevContainerPath, crMachines, crMachine, crParams, crCodespace,
                   crAllowURL, crBrowsed, crStatus, crOut, crErrOut>>
    /\ UNCHANGED otherThanCreate

\* lines 138-143
CrGetRepository ==
    /\ crPc = "getRepository"
    /\ \E ok \in BOOLEAN :
         crApiCalls' = Append(crApiCalls,
                              CreateCall("GetRepository", crInputs.Repository, ~ok)) /\
         IF ok
         THEN /\ crRepository' = <<[ID |-> 1, DefaultBranch |-> DefaultBranch]>>
              /\ crPc' = "billableOwner"
              /\ UNCHANGED crErr
         ELSE /\ crErr' = Err("error getting repository", << >>)
              /\ crPc' = "done"
              /\ UNCHANGED crRepository
    /\ UNCHANGED <<crOpts, crIO, crInputs, crBranch, crDevContainers, crDevContainerPath,
                   crMachines, crMachine, crParams, crCodespace, crAllowURL, crPrompts,
                   crBrowsed, crStatus, crOut, crErrOut>>
    /\ UNCHANGED otherThanCreate

\* billableOwner: nil, or an owner and its Type
BillableOwners == {"nil", "Organization", "User"}

\* a billing check that refuses repositories paid for by an organization
CrGetBillableOwnerBlocksOrganization ==
    /\ crPc = "billableOwner"
    /\ \E ok \in BOOLEAN, owner \in BillableOwners :
         crApiCalls' = Append(crApiCalls,
               CreateCall("GetCodespaceBillableOwner", crInputs.Repository, ~ok)) /\
         IF ok /\ owner # "Organization"
         THEN /\ crPc' = "branch"
              /\ UNCHANGED <<crErr, crErrOut>>
         ELSE /\ crErrOut' = IF ok THEN Append(crErrOut, "usage is paid for by") ELSE crErrOut
              /\ crErr' = Err("error checking codespace ownership", << >>)
              /\ crPc' = "done"
    /\ UNCHANGED <<crOpts, crIO, crInputs, crRepository, crBranch, crDevContainers,
                   crDevContainerPath, crMachines, crMachine, crParams, crCodespace,
                   crAllowURL, crPrompts, crBrowsed, crStatus, crOut>>
    /\ UNCHANGED otherThanCreate

\* lines 145-154
CrGetBillableOwner ==
    /\ crPc = "billableOwner"
    /\ \E ok \in BOOLEAN, owner \in BillableOwners :
         crApiCalls' = Append(crApiCalls,
               CreateCall("GetCodespaceBillableOwner", crInputs.Repository, ~ok)) /\
         IF ok
         THEN /\ crErrOut' = IF owner = "Organization"
                             THEN Append(crErrOut, "usage is paid for by") ELSE crErrOut
              /\ crPc' = "branch"
              /\ UNCHANGED crErr
         ELSE /\ owner = "nil"
              /\ crErr' = Err("error checking codespace ownership", << >>)
              /\ crPc' = "done"
              /\ UNCHANGED crErrOut
    /\ UNCHANGED <<crOpts, crIO, crInputs, crRepository, crBranch, crDevContainers,
                   crDevContainerPath, crMachines, crMachine, crParams, crCodespace,
                   crAllowURL, crPrompts, crBrowsed, crStatus, crOut>>
    /\ UNCHANGED otherThanCreate

\* lines 176-179
branchOrDefault(branch, repository) ==
    IF branch = NoText THEN repository.DefaultBranch ELSE branch

\* lines 156-179: the branch prompt when the repository was prompted for
CrAskBranch ==
    /\ crPc = "branch"
    /\ IF crOpts.repo = NoText
       THEN \E answer \in AskAnswers({NoText} \cup BranchNames) :
              /\ crPrompts' = Append(crPrompts,
                     CreatePrompt(IF crInputs.Branch # NoText THEN "Branch:"
                                  ELSE "Branch (leave blank for default branch):",
                                  <<crInputs.Branch>>, answer))
              /\ IF answer.err
                 THEN /\ crErr' = Err("failed to prompt", << >>)
                      /\ crPc' = "done"
                      /\ UNCHANGED <<crInputs, crBranch>>
                 ELSE /\ crInputs' = [crInputs EXCEPT !.Branch = answer.text]
                      /\ crBranch' = branchOrDefault(answer.text, crRepository[1])
                      /\ crPc' = "devcontainer"
                      /\ UNCHANGED crErr
       ELSE /\ crBranch' = branchOrDefault(crInputs.Branch, crRepository[1])
            /\ crPc' = "devcontainer"
            /\ UNCHANGED <<crPrompts, crInputs, crErr>>
    /\ UNCHANGED <<crOpts, crIO, crRepository, crDevContainers, crDevContainerPath,
                   crMachines, crMachine, crParams, crCodespace, crAllowURL, crApiCalls,
                   crBrowsed, crStatus, crOut, crErrOut>>
    /\ UNCHANGED otherThanCreate

\* stringInSlice, lines 502-509
stringInSlice(a, slice) == \E i \in DOMAIN slice : slice[i] = a

\* the lists ListDevContainers may return: at most MaxDevContainers files
\* with distinct paths
DevContainerLists ==
    UNION {{l \in [1..n -> [Path : DevContainerPaths]] :
               \A i, j \in 1..n : l[i].Path = l[j].Path => i = j} : n \in 0..MaxDevContainers}

\* prompt options that never hold the default configuration
promptOptionsPathsOnly(devcontainers) ==
    [i \in 1..Len(devcontainers) |-> devcontainers[i].Path]

\* lines 198-206: the options of the devcontainer prompt
promptOptions(devcontainers) ==
    (IF ~stringInSlice(devcontainers[1].Path, DEFAULT_DEVCONTAINER_DEFINITIONS)
     THEN <<DEVCONTAINER_PROMPT_DEFAULT>> ELSE << >>)
    \o [i \in 1..Len(devcontainers) |-> devcontainers[i].Path]

\* a test that never selects a devcontainer.json without asking
autoSelectsNever(devcontainers) == FALSE

\* line 195: one devcontainer.json file, at one of the default paths
autoSelects(devcontainers) ==
    /\ Len(devcontainers) = 1
    /\ stringInSlice(devcontainers[1].Path, DEFAULT_DEVCONTAINER_DEFINITIONS)

\* whether lines 192-220 prompt for the devcontainer path
devContainerPrompts(devcontainers) ==
    Len(devcontainers) > 0 /\ ~autoSelects(devcontainers)

\* lines 222-225
devContainerPathOrDefault(path) ==
    IF path = DEVCONTAINER_PROMPT_DEFAULT THEN NoText ELSE path

\* the elements of a sequence
Elements(seq) == {seq[i] : i \in DOMAIN seq}

\* what the devcontainer prompt may leave in devContainerPath
DevContainerAnswers(devcontainers) ==
    IF devContainerPrompts(devcontainers)
    THEN AskAnswers(Elements(promptOptions(devcontainers)))
    ELSE {[err |-> FALSE, text |-> NoText]}

\* lines 181-226: the devcontainer path, listed and chosen unless it was given
CrDevContainer ==
    /\ crPc = "devcontainer"
    /\ IF crOpts.devContainerPath # NoText
       THEN /\ crDevContainerPath' = crOpts.devContainerPath
            /\ crPc' = "machine"
            /\ UNCHANGED <<crApiCalls, crDevContainers, crPrompts, crErr>>
       ELSE \E ok \in BOOLEAN, devcontainers \in DevContainerLists :
                 crApiCalls' = Append(crApiCalls,
                    CreateCall("ListDevContainers", <<crRepository[1].ID, crBranch, 100>>,
                               ~ok)) /\
                 IF ~ok
                 THEN /\ devcontainers = << >>
                      /\ crErr' = Err("error getting devcontainer.json paths", << >>)
                      /\ crPc' = "done"
                      /\ UNCHANGED <<crDevContainers, crDevContainerPath, crPrompts>>
                 ELSE \E answer \in DevContainerAnswers(devcontainers) :
                      /\ crDevContainers' = devcontainers
                      /\ crPrompts' = IF devContainerPrompts(devcontainers)
                                      THEN Append(crPrompts,
                                             CreatePrompt("devContainerPath",
                                                          promptOptions(devcontainers), answer))
                                      ELSE crPrompts
                      /\ IF answer.err
                         THEN /\ crErr' = Err("failed to prompt", << >>)
                              /\ crPc' = "done"
                              /\ UNCHANGED crDevContainerPath
                         ELSE /\ crDevContainerPath' =
                                   IF devContainerPrompts(devcontainers)
                                   THEN devContainerPathOrDefault(answer.text)
                                   ELSE IF Len(devcontainers) > 0
                                   THEN devContainerPathOrDefault(devcontainers[1].Path)
                                   ELSE devContainerPathOrDefault(crOpts.devContainerPath)
                              /\ crPc' = "machine"
                              /\ UNCHANGED crErr
    /\ UNCHANGED <<crOpts, crIO, crInputs, crRepository, crBranch, crMachines, crMachine,
                   crParams, crCodespace, crAllowURL, crBrowsed, crStatus, crOut, crErrOut>>
    /\ UNCHANGED otherThanCreate

\* api.Machine: PrebuildAvailability matters only where the machine prompt
\* can be reached, that is when --machine was not given
Machines(name, opts) ==
    [Name : {name},
     DisplayName : {"2 cores"},
     PrebuildAvailability : IF opts.machine = NoMachine THEN {"none", "ready"} ELSE {"none"}]

\* the lists GetCodespacesMachines may return: at most MaxMachines machines,
\* the i-th named MachineName(i)
MachineLists(opts) ==
    UNION {{l \in [1..n -> UNION {Machines(MachineName(i), opts) : i \in 1..n}] :
               \A i \in 1..n : l[i].Name = MachineName(i)} : n \in 0..MaxMachines}

\* buildDisplayName, lines 491-500
buildDisplayName(displayName, prebuildAvailability) ==
    CASE prebuildAvailability = "ready" -> <<displayName, " (Prebuild ready)">>
      [] prebuildAvailability = "in_progress" -> <<displayName, " (Prebuild in progress)">>
      [] OTHER -> <<displayName>>

\* lines 444-450: machineNames
machineNames(machines) ==
    [i \in 1..Len(machines) |->
        buildDisplayName(machines[i].DisplayName, machines[i].PrebuildAvailability)]

\* lines 445-450, 469: machineByName[name], the last machine shown as name
machineByName(machines, name) ==
    LET shown == {i \in 1..Len(machines) : machineNames(machines)[i] = name} IN
    machines[CHOOSE i \in shown : \A j \in shown : j <= i]

\* lines 429-432
availableMachines(machines) == [i \in 1..Len(machines) |-> machines[i].Name]

\* whether getMachineName prompts
machinePrompts(machines, machine) == machine = NoMachine /\ Len(machines) > 1

\* a getMachineName that takes a given machine name as it is
getMachineNameUnchecked(machines, machine, ok, answer) ==
    IF ~ok
    THEN [machine |-> NoMachine, err |-> Err("error requesting machine instance types", << >>)]
    ELSE IF machine # NoMachine
    THEN [machine |-> machine, err |-> NoErr]
    ELSE IF Len(machines) = 0
    THEN [machine |-> NoMachine, err |-> NoErr]
    ELSE IF Len(machines) = 1
    THEN [machine |-> machines[1].Name, err |-> NoErr]
    ELSE IF answer.err
    THEN [machine |-> NoMachine, err |-> Err("error getting machine", << >>)]
    ELSE [machine |-> machineByName(machines, answer.text).Name, err |-> NoErr]

\* a getMachineName that falls back to a machine when none is available
getMachineNameDefaultsWhenEmpty(machines, machine, ok, answer) ==
    IF ~ok
    THEN [machine |-> NoMachine, err |-> Err("error requesting machine instance types", << >>)]
    ELSE IF machine # NoMachine
    THEN IF \E i \in 1..Len(machines) : machines[i].Name = machine
         THEN [machine |-> machine, err |-> NoErr]
         ELSE [machine |-> NoMachine,
               err |-> Err("there is no such machine for the repository",
                           <<machine, availableMachines(machines)>>)]
    ELSE IF Len(machines) = 0
    THEN [machine |-> OtherMachine, err |-> NoErr]
    ELSE IF Len(machines) = 1
    THEN [machine |-> machines[1].Name, err |-> NoErr]
    ELSE IF answer.err
    THEN [machine |-> NoMachine, err |-> Err("error getting machine", << >>)]
    ELSE [machine |-> machineByName(machines, answer.text).Name, err |-> NoErr]

\* getMachineName, lines 414-472; ok: GetCodespacesMachines succeeded,
\* answer: what the machine prompt leaves in machineAnswers
getMachineName(machines, machine, ok, answer) ==
    IF ~ok
    THEN [machine |-> NoMachine, err |-> Err("error requesting machine instance types", << >>)]
    ELSE IF machine # NoMachine
    THEN IF \E i \in 1..Len(machines) : machines[i].Name = machine
         THEN [machine |-> machine, err |-> NoErr]
         ELSE [machine |-> NoMachine,
               err |-> Err("there is no such machine for the repository",
                           <<machine, availableMachines(machines)>>)]
    ELSE IF Len(machines) = 0
    THEN [machine |-> NoMachine, err |-> NoErr]
    ELSE IF Len(machines) = 1
    THEN [machine |-> machines[1].Name, err |-> NoErr]
    ELSE IF answer.err
    THEN [machine |-> NoMachine, err |-> Err("error getting machine", << >>)]
    ELSE [machine |-> machineByName(machines, answer.text).Name, err |-> NoErr]

\* what the machine prompt may leave in machineAnswers
MachineAnswers(machines, machine) ==
    IF machinePrompts(machines, machine)
    THEN AskAnswers(Elements(machineNames(machines)))
    ELSE {[err |-> FALSE, text |-> << >>]}

\* lines 228-234
CrGetMachineName ==
    /\ crPc = "machine"
    /\ \E ok \in BOOLEAN, machines \in MachineLists(crOpts) :
       \E answer \in MachineAnswers(machines, crOpts.machine) :
         LET r == getMachineName(machines, crOpts.machine, ok, answer) IN
         /\ crApiCalls' = Append(crApiCalls,
                CreateCall("GetCodespacesMachines",
                           <<crRepository[1].ID, crBranch, crInputs.Location,
                             crDevContainerPath>>, ~ok))
         /\ ~ok => machines = << >>
         /\ crMachines' = machines
         /\ crPrompts' = IF ok /\ machinePrompts(machines, crOpts.machine)
                         THEN Append(crPrompts,
                                     CreatePrompt("machine", machineNames(machines), answer))
                         ELSE crPrompts
         /\ crMachine' = r.machine
         /\ IF r.err # NoErr
            THEN crErr' = Err("error getting machine type", r.err) /\ crPc' = "done"
            ELSE IF r.machine = NoMachine
            THEN /\ crErr' = Err("there are no available machine types for this repository",
                                 << >>)
                 /\ crPc' = "done"
            ELSE crPc' = "create" /\ UNCHANGED crErr
    /\ UNCHANGED <<crOpts, crIO, crInputs, crRepository, crBranch, crDevContainers,
                   crDevContainerPath, crParams, crCodespace, crAllowURL, crBrowsed,
                   crStatus, crOut, crErrOut>>
    /\ UNCHANGED otherThanCreate

\* cmdutil.SilentError
SilentError == Err("SilentError", << >>)

\* lines 236-247
createParams(repository, branch, machine, inputs, opts, devContainerPath) ==
    [RepositoryID |-> repository.ID,
     Branch |-> branch,
     Machine |-> machine,
     Location |-> inputs.Location,
     VSCSTarget |-> VscsTarget,
     VSCSTargetURL |-> VscsTargetUrl,
     IdleTimeoutMinutes |-> opts.idleTimeout,
     RetentionPeriodMinutes |-> opts.retentionPeriod,
     DevContainerPath |-> devContainerPath,
     PermissionsOptOut |-> opts.permissionsOptOut]

\* an opt-out that also lets the service pick the machine
optOutOfPermissionsAnyMachine(params) ==
    [params EXCEPT !.PermissionsOptOut = TRUE, !.Machine = NoMachine]

\* line 336: createParams.PermissionsOptOut = true
optOutOfPermissions(params) ==
    [params EXCEPT !.PermissionsOptOut = TRUE]

\* the codespaces CreateCodespace may return
NewCodespaces ==
    [Name : {"new-codespace"}, IdleTimeoutNotice : {NoText, "notice"}]

\* how a CreateCodespace call may end: a codespace, an error, or an
\* api.AcceptPermissionsRequiredError with its AllowPermissionsURL
AllowPermissionsURLs == {NoText, "https://example.com/permissions"}
CreateOutcomes ==
    {[kind |-> "ok", codespace |-> c, url |-> NoText] : c \in NewCodespaces}
    \cup {[kind |-> "error", codespace |-> << >>, url |-> NoText]}
    \cup {[kind |-> "permissions", codespace |-> << >>, url |-> u] : u \in AllowPermissionsURLs}

\* a Create that never shows the status
afterCreateNoStatus(opts) == "print"

\* line 266: where Create goes once it has a codespace
afterCreate(opts) == IF opts.showStatus THEN "status" ELSE "print"

\* lines 236-264: the first CreateCodespace call
CrCreateCodespace ==
    /\ crPc = "create"
    /\ LET params == createParams(crRepository[1], crBranch, crMachine, crInputs, crOpts,
                                  crDevContainerPath) IN
       /\ crParams' = <<params>>
       /\ \E outcome \in CreateOutcomes :
         crApiCalls' = Append(crApiCalls,
                              CreateCall("CreateCodespace", params, outcome.kind # "ok")) /\
         CASE outcome.kind = "ok" ->
                /\ crCodespace' = <<outcome.codespace>>
                /\ crPc' = afterCreate(crOpts)
                /\ UNCHANGED <<crErr, crAllowURL>>
           [] outcome.kind = "permissions" /\ outcome.url # NoText ->
                /\ crAllowURL' = outcome.url
                /\ crPc' = "permissions"
                /\ UNCHANGED <<crErr, crCodespace>>
           [] OTHER ->
                /\ crErr' = Err("error creating codespace", outcome.kind)
                /\ crPc' = "done"
                /\ UNCHANGED <<crCodespace, crAllowURL>>
    /\ UNCHANGED <<crOpts, crIO, crInputs, crRepository, crBranch, crDevContainers,
                   crDevContainerPath, crMachines, crMachine, crPrompts, crBrowsed,
                   crStatus, crOut, crErrOut>>
    /\ UNCHANGED otherThanCreate

\* lines 298-301
choices == <<"Continue in browser to review and authorize additional permissions (Recommended)",
             "Continue without authorizing additional permissions">>

\* a handler that, unable to prompt, goes on without the permissions
handleAdditionalPermissionsUnattended(canPrompt, answer, browseOk) ==
    IF ~canPrompt
    THEN [prompted |-> FALSE, browse |-> FALSE, retry |-> TRUE, err |-> NoErr]
    ELSE IF answer.err
    THEN [prompted |-> TRUE, browse |-> FALSE, retry |-> FALSE,
          err |-> Err("error getting answers", << >>)]
    ELSE IF answer.text = choices[1]
    THEN [prompted |-> TRUE, browse |-> TRUE, retry |-> FALSE,
          err |-> IF browseOk THEN SilentError ELSE Err("error opening browser", << >>)]
    ELSE [prompted |-> TRUE, browse |-> FALSE, retry |-> TRUE, err |-> NoErr]

\* handleAdditionalPermissions, lines 283-336, up to the retry: whether it
\* prompts, opens the browser, goes on to the retry, and the error it returns
\* otherwise (answer: what the prompt leaves in answers; browseOk: Browse succeeds)
handleAdditionalPermissions(canPrompt, answer, browseOk) ==
    IF ~canPrompt
    THEN [prompted |-> FALSE, browse |-> FALSE, retry |-> FALSE, err |-> SilentError]
    ELSE IF answer.err
    THEN [prompted |-> TRUE, browse |-> FALSE, retry |-> FALSE,
          err |-> Err("error getting answers", << >>)]
    ELSE IF answer.text = choices[1]
    THEN [prompted |-> TRUE, browse |-> TRUE, retry |-> FALSE,
          err |-> IF browseOk THEN SilentError ELSE Err("error opening browser", << >>)]
    ELSE [prompted |-> TRUE, browse |-> FALSE, retry |-> TRUE, err |-> NoErr]

\* what the permissions prompt may leave in answers
PermissionAnswers(canPrompt) ==
    IF canPrompt THEN AskAnswers(Elements(choices)) ELSE {[err |-> FALSE, text |-> NoText]}

\* whether a.browser.Browse may succeed, where it is called
BrowseOutcomes(canPrompt, answer) ==
    IF canPrompt /\ ~answer.err /\ answer.text = choices[1] THEN BOOLEAN ELSE {TRUE}

\* lines 259-263 and 283-336: handleAdditionalPermissions up to the retry
CrHandlePermissions ==
    /\ crPc = "permissions"
    /\ \E answer \in PermissionAnswers(crIO.canPrompt) :
       \E browseOk \in BrowseOutcomes(crIO.canPrompt, answer) :
         LET r == handleAdditionalPermissions(crIO.canPrompt, answer, browseOk) IN
         /\ crErrOut' = crErrOut \o <<"You must authorize or deny additional permissions">>
                \o (IF ~crIO.canPrompt
                    THEN <<"Open this URL in your browser", "--default-permissions">>
                    ELSE << >>)
                \o (IF r.browse THEN <<"Please re-run the create request">> ELSE << >>)
         /\ crPrompts' = IF r.prompted
                         THEN Append(crPrompts, CreatePrompt("accept", choices, answer))
                         ELSE crPrompts
         /\ crBrowsed' = IF r.browse
                         THEN Append(crBrowsed, [url |-> crAllowURL, ok |-> browseOk])
                         ELSE crBrowsed
         /\ IF r.retry
            THEN /\ crParams' = <<optOutOfPermissions(crParams[1])>>
                 /\ crPc' = "retry"
                 /\ UNCHANGED crErr
            ELSE /\ crErr' = r.err
                 /\ crPc' = "done"
                 /\ UNCHANGED crParams
    /\ UNCHANGED <<crOpts, crIO, crInputs, crRepository, crBranch, crDevContainers,
                   crDevContainerPath, crMachines, crMachine, crCodespace, crAllowURL,
                   crApiCalls, crStatus, crOut>>
    /\ UNCHANGED otherThanCreate

\* a retry whose permissions-required failure is returned as the silent error
retryErrorSilent(outcome) ==
    IF outcome.kind = "permissions" THEN SilentError
    ELSE Err("error creating codespace", outcome.kind)

\* lines 342-344 and 260-263: the error of a failed retry, returned as it is
retryError(outcome) == Err("error creating codespace", outcome.kind)

\* a retry that is made again when it is asked for permissions again
CrRetryCreateUntilCreated ==
    /\ crPc = "retry"
    /\ \E outcome \in CreateOutcomes :
         crApiCalls' = Append(crApiCalls,
                              CreateCall("CreateCodespace", crParams[1], outcome.kind # "ok")) /\
         IF outcome.kind = "ok"
         THEN /\ crCodespace' = <<outcome.codespace>>
              /\ crPc' = afterCreate(crOpts)
              /\ UNCHANGED crErr
         ELSE IF outcome.kind = "permissions"
         THEN UNCHANGED <<crPc, crErr, crCodespace>>
         ELSE /\ crErr' = retryError(outcome)
              /\ crPc' = "done"
              /\ UNCHANGED crCodespace
    /\ UNCHANGED <<crOpts, crIO, crInputs, crRepository, crBranch, crDevContainers,
                   crDevContainerPath, crMachines, crMachine, crParams, crAllowURL,
                   crPrompts, crBrowsed, crStatus, crOut, crErrOut>>
    /\ UNCHANGED otherThanCreate

\* lines 338-346: the second CreateCodespace call, with the opt-out set
CrRetryCreate ==
    /\ crPc = "retry"
    /\ \E outcome \in CreateOutcomes :
         crApiCalls' = Append(crApiCalls,
                              CreateCall("CreateCodespace", crParams[1], outcome.kind # "ok")) /\
         IF outcome.kind = "ok"
         THEN /\ crCodespace' = <<outcome.codespace>>
              /\ crPc' = afterCreate(crOpts)
              /\ UNCHANGED crErr
         ELSE /\ crErr' = retryError(outcome)
              /\ crPc' = "done"
              /\ UNCHANGED crCodespace
    /\ UNCHANGED <<crOpts, crIO, crInputs, crRepository, crBranch, crDevContainers,
                   crDevContainerPath, crMachines, crMachine, crParams, crAllowURL,
                   crPrompts, crBrowsed, crStatus, crOut, crErrOut>>
    /\ UNCHANGED otherThanCreate

\* line 267: showStatus is called with the new codespace
CrShowStatus ==
    /\ crPc = "status"
    /\ crStatus' = Append(crStatus, [codespace |-> crCodespace[1].Name, result |-> << >>])
    /\ crPc' = "polling"
    /\ UNCHANGED <<crOpts, crIO, crInputs, crRepository, crBranch, crDevContainers,
                   crDevContainerPath, crMachines, crMachine, crParams, crCodespace,
                   crAllowURL, crErr, crApiCalls, crPrompts, crBrowsed, crOut, crErrOut>>
    /\ UNCHANGED otherThanCreate

\* what showStatus may return: nil, or the error of lines 407-408
ShowStatusResults == {showStatusResult(isCanceled, armed) : isCanceled, armed \in BOOLEAN}

\* lines 267-269: showStatus returns
CrShowStatusReturns ==
    /\ crPc = "polling"
    /\ \E result \in ShowStatusResults :
         /\ crStatus' = [crStatus EXCEPT ![Len(crStatus)].result = <<result>>]
         /\ IF result # NoErr
            THEN crErr' = Err("show status", result) /\ crPc' = "done"
            ELSE crPc' = "print" /\ UNCHANGED crErr
    /\ UNCHANGED <<crOpts, crIO, crInputs, crRepository, crBranch, crDevContainers,
                   crDevContainerPath, crMachines, crMachine, crParams, crCodespace,
                   crAllowURL, crApiCalls, crPrompts, crBrowsed, crOut, crErrOut>>
    /\ UNCHANGED otherThanCreate

\* lines 272-280: the name of the codespace is printed, and the notice
CrPrint ==
    /\ crPc = "print"
    /\ crOut' = Append(crOut, crCodespace[1].Name)
    /\ \E isStderrTTY \in BOOLEAN :
         crErrOut' = IF isStderrTTY /\ crCodespace[1].IdleTimeoutNotice # NoText
                     THEN Append(crErrOut, "Notice:") ELSE crErrOut
    /\ crPc' = "done"
    /\ UNCHANGED <<crOpts, crIO, crInputs, crRepository, crBranch, crDevContainers,
                   crDevContainerPath, crMachines, crMachine, crParams, crCodespace,
                   crAllowURL, crErr, crApiCalls, crPrompts, crBrowsed, crStatus>>
    /\ UNCHANGED otherThanCreate

NextCreate ==
    \/ CrAskRepository
    \/ CrGetRepository
    \/ CrGetBillableOwner
    \/ CrAskBranch
    \/ CrDevContainer
    \/ CrGetMachineName
    \/ CrCreateCodespace
    \/ CrHandlePermissions
    \/ CrRetryCreate
    \/ CrShowStatus
    \/ CrShowStatusReturns
    \/ CrPrint

InitCreate == CreateStart /\ RebuildIdle /\ StatusIdle /\ DeleteIdle /\ ClientIdle

SpecCreate == InitCreate /\ [][NextCreate]_vars

----------------------------------------------------------------------------
(* Confirmation and timestamps in Delete *)

\* the confirmation prompts issued so far
ConfirmPrompts == SelectSeq(dlPrompts, LAMBDA q : q.kind = "confirm")

\* the confirmation prompts about the record named name
PromptsAbout(name) == {j \in DOMAIN ConfirmPrompts : ConfirmPrompts[j].options[1].Name = name}

\* the DeleteCodespace calls for the record named name
DeleteCallsFor(name) == {j \in DOMAIN DeleteCalls : DeleteCalls[j].name = name}

\* the fan-out ran to its end
Deleted == dlPc = "done" /\ dlTasks # << >>

\* C11: Delete asks for no confirmation about a record when --force is set
\* or the record has neither uncommitted nor unpushed changes; otherwise, with
\* a terminal, every record that passed the filters and has unsaved changes
\* is asked about exactly once.  A record is deleted only if it needed no
\* confirmation or its prompt was answered yes: a declined record gets no
\* DeleteCodespace call, and once the deletions have run every accepted
\* record has got one.
C11_ConfirmationGating ==
    /\ \A j \in DOMAIN ConfirmPrompts :
          LET c == ConfirmPrompts[j].options[1] IN
          ~dlOpts.skipConfirm /\ hasUnsavedChanges(c) /\ dlOpts.isInteractive
    /\ \A k \in DOMAIN dlCodespaces :
          LET c == dlCodespaces[k]
              asked == PromptsAbout(c.Name)
              needed == ~dlOpts.skipConfirm /\ hasUnsavedChanges(c)
              yes == \E j \in asked : ConfirmPrompts[j].answer = "yes" IN
          /\ Cardinality(asked)
                = IF k \in dlPassed /\ needed /\ dlOpts.isInteractive THEN 1 ELSE 0
          /\ DeleteCallsFor(c.Name) # {} => (k \in dlPassed /\ (~needed \/ yes))
          /\ (Deleted /\ k \in dlPassed /\ (~needed \/ yes))
                => Cardinality(DeleteCallsFor(c.Name)) = 1

\* with a terminal, of two records with unsaved changes the first was declined
\* and the second accepted: only the second was deleted
C11_Witness ==
    /\ Deleted
    /\ dlOpts.isInteractive
    /\ ~dlOpts.skipConfirm
    /\ Len(dlCodespaces) = 2
    /\ Len(ConfirmPrompts) = 2
    /\ ConfirmPrompts[1].answer = "no"
    /\ ConfirmPrompts[2].answer = "yes"
    /\ Len(DeleteCalls) = 1
    /\ DeleteCalls[1].name = dlCodespaces[2].Name

\* the records that passed the filters and have unsaved changes
PassedUnsaved == {k \in dlPassed : hasUnsavedChanges(dlCodespaces[k])}

\* C12: without a terminal and without --force, the first record that passes
\* the filters and has unsaved changes ends Delete at once with an error that
\* names that codespace; no confirmation is asked for, and no DeleteCodespace
\* call is made, not for this record and not for the records accepted before.
C12_NonInteractiveFailsAtFirstUnsaved ==
    (~dlOpts.isInteractive /\ ~dlOpts.skipConfirm) =>
        /\ ConfirmPrompts = << >>
        /\ PassedUnsaved # {} =>
              /\ PassedUnsaved = {dlIndex}
              /\ dlPc = "done"
              /\ dlErr = Err("unable to confirm",
                             Err("codespace has unsaved changes (use --force to override)",
                                 dlCodespaces[dlIndex].Name))
              /\ dlTasks = << >>
              /\ DeleteCalls = << >>

\* without a terminal: the first record was accepted, the second has unsaved
\* changes, and nothing was deleted
C12_Witness ==
    /\ ~dlOpts.isInteractive
    /\ ~dlOpts.skipConfirm
    /\ Len(dlCodespaces) = 2
    /\ Len(dlToDelete) = 1
    /\ PassedUnsaved = {2}
    /\ dlPc = "done"
    /\ dlErr # NoErr
    /\ DeleteCalls = << >>

\* the records whose last_used_at is no RFC 3339 time
Unparseable == {k \in DOMAIN dlCodespaces : ~ParseRFC3339(dlCodespaces[k].LastUsedAt).ok}

\* the filter loop has been reached: nameFilter has its final value
LoopReached ==
    /\ dlPc \in {"filter", "wait", "done"}
    /\ dlNameFilter # NoName \/ dlOpts.deleteAll \/ dlOpts.repoFilter # NoRepo

\* C13 as stated: with keepDays > 0, a record of the candidate list whose
\* last_used_at cannot be parsed makes Delete fail, and nothing is deleted.
C13_UnparseableAlwaysFails ==
    (dlOpts.keepDays > 0 /\ Unparseable # {}) =>
        /\ DeleteCalls = << >>
        /\ dlPc = "done" => dlErr # NoErr

\* C13, amended: with keepDays > 0, the loop never goes past a record that
\* matches the name filter and the repository filter and whose last_used_at
\* cannot be parsed: Delete ends there with the parse error, and issues no
\* DeleteCodespace call.  A record that the name filter or the repository
\* filter excludes is skipped before its timestamp is parsed.
C13_UnparseableMatchFails ==
    \A k \in Unparseable :
        LET c == dlCodespaces[k] IN
        (dlOpts.keepDays > 0 /\ LoopReached /\ NameMatches(c) /\ RepoMatches(c)) =>
            /\ dlIndex <= k
            /\ k \notin dlPassed
            /\ DeleteCalls = << >>
            /\ dlPc = "done" => dlErr # NoErr
            /\ (dlPc = "done" /\ dlIndex = k) =>
                  dlErr = Err("error parsing last_used_at timestamp", c.LastUsedAt)

\* the first record passed the age filter, the second one has a last_used_at
\* that is no time: Delete failed on it and deleted nothing
C13_Witness ==
    /\ dlOpts.keepDays > 0
    /\ Len(dlCodespaces) = 2
    /\ Unparseable = {2}
    /\ dlPassed = {1}
    /\ Len(dlToDelete) = 1
    /\ dlIndex = 2
    /\ dlPc = "done"
    /\ dlErr = Err("error parsing last_used_at timestamp", dlCodespaces[2].LastUsedAt)
    /\ DeleteCalls = << >>

----------------------------------------------------------------------------
(* Permissions, machines, devcontainers and the status in Create *)

\* the CreateCodespace calls issued so far
CreateCalls == SelectSeq(crApiCalls, LAMBDA call : call.op = "CreateCodespace")

\* the prompts of one kind issued so far
PromptsOfKind(kind) == SelectSeq(crPrompts, LAMBDA q : q.kind = kind)

\* the first CreateCodespace call failed asking for permissions, and
\* handleAdditionalPermissions has run
PermissionsHandled == crAllowURL # NoText /\ crPc # "permissions"

\* C14: when the first CreateCodespace call of a Create that cannot prompt
\* fails with an AcceptPermissionsRequiredError that carries a URL, Create
\* returns cmdutil.SilentError itself, not wrapped; from that failure on it
\* issues no prompt and no control-plane call, so CreateCodespace is called
\* once only.
C14_NonInteractivePermissionsSilent ==
    /\ []((~crIO.canPrompt /\ PermissionsHandled) =>
            /\ crPc = "done"
            /\ crErr = SilentError
            /\ Len(CreateCalls) = 1
            /\ PromptsOfKind("accept") = << >>
            /\ crBrowsed = << >>
            /\ crOut = << >>)
    /\ [][(crPc = "permissions" /\ ~crIO.canPrompt) =>
            (crPc' = "done" /\ crPrompts' = crPrompts /\ crApiCalls' = crApiCalls)]_vars

\* a Create that cannot prompt ended with the silent error after one
\* CreateCodespace call that asked for permissions
C14_Witness ==
    /\ ~crIO.canPrompt
    /\ crAllowURL # NoText
    /\ crPc = "done"
    /\ crErr = SilentError
    /\ Len(CreateCalls) = 1
    /\ "--default-permissions" \in Elements(crErrOut)

\* C15: in a Create that can prompt and whose first CreateCodespace call asks
\* for permissions, the user is asked once.  Choosing the browser hands the
\* authorization URL to the browser and ends Create with the silent error (with
\* "error opening browser" if the browser cannot be opened), with no further
\* CreateCodespace call.  Choosing to continue issues exactly one more
\* CreateCodespace call, with PermissionsOptOut set; if that call fails, also
\* when it asks for permissions again, Create returns "error creating
\* codespace", not the silent error, and neither prompts nor calls again.
C15_InteractivePermissions ==
    LET asked == PromptsOfKind("accept") IN
    /\ Len(CreateCalls) <= 2
    /\ Len(asked) <= 1
    /\ Len(crBrowsed) <= 1
    /\ Len(CreateCalls) = 2 =>
          (asked # << >> /\ ~asked[1].answer.err /\ asked[1].answer.text = choices[2])
    /\ (crIO.canPrompt /\ PermissionsHandled) =>
          /\ Len(asked) = 1
          /\ LET answer == asked[1].answer IN
             IF answer.err
             THEN /\ crPc = "done" /\ crErr = Err("error getting answers", << >>)
                  /\ Len(CreateCalls) = 1 /\ crBrowsed = << >>
             ELSE IF answer.text = choices[1]
             THEN /\ Len(crBrowsed) = 1 /\ crBrowsed[1].url = crAllowURL
                  /\ crPc = "done"
                  /\ crErr = IF crBrowsed[1].ok THEN SilentError
                             ELSE Err("error opening browser", << >>)
                  /\ Len(CreateCalls) = 1 /\ crCodespace = << >>
             ELSE /\ crBrowsed = << >>
                  /\ crPc = "retry" => Len(CreateCalls) = 1
                  /\ crPc # "retry" =>
                        /\ Len(CreateCalls) = 2
                        /\ CreateCalls[2].args.PermissionsOptOut
                        /\ crCodespace = << >> =>
                              /\ crPc = "done"
                              /\ crErr.kind = "error creating codespace"
                              /\ crErr # SilentError

\* the user chose to continue, and the retry asked for permissions again
C15_Witness ==
    /\ crIO.canPrompt
    /\ Len(PromptsOfKind("accept")) = 1
    /\ Len(CreateCalls) = 2
    /\ ~CreateCalls[1].args.PermissionsOptOut
    /\ CreateCalls[2].args.PermissionsOptOut
    /\ crPc = "done"
    /\ crErr = Err("error creating codespace", "permissions")

\* the control-plane calls of one operation issued so far
CallsOf(op) == SelectSeq(crApiCalls, LAMBDA call : call.op = op)

\* GetCodespacesMachines was called and returned its list
MachinesListed ==
    /\ CallsOf("GetCodespacesMachines") # << >>
    /\ crErr # Err("error getting machine type",
                   Err("error requesting machine instance types", << >>))

\* C16: when --machine is not given and GetCodespacesMachines returns one
\* machine, that machine is taken without a prompt and Create goes on to
\* CreateCodespace with it; when it returns no machine, Create fails with
\* "there are no available machine types for this repository" and
\* CreateCodespace is never called.
C16_OneOrNoMachine ==
    (crOpts.machine = NoMachine /\ MachinesListed) =>
        /\ Len(crMachines) = 1 =>
              /\ PromptsOfKind("machine") = << >>
              /\ crMachine = crMachines[1].Name
              /\ crPc = "create" \/ CreateCalls # << >>
              /\ \A k \in DOMAIN CreateCalls :
                    CreateCalls[k].args.Machine = crMachines[1].Name
        /\ Len(crMachines) = 0 =>
              /\ PromptsOfKind("machine") = << >>
              /\ crPc = "done"
              /\ crErr = Err("there are no available machine types for this repository",
                             << >>)
              /\ CreateCalls = << >>

\* the only machine of the list went into a CreateCodespace call that succeeded
C16_Witness ==
    /\ crOpts.machine = NoMachine
    /\ Len(crMachines) = 1
    /\ PromptsOfKind("machine") = << >>
    /\ Len(CreateCalls) = 1
    /\ CreateCalls[1].args.Machine = MachineName(1)
    /\ crCodespace # << >>

\* C17: when --machine names a machine that GetCodespacesMachines, called for
\* the resolved repository, branch and devcontainer path, does not list,
\* Create fails with an error that holds the names of the machines listed,
\* and calls CreateCodespace never; so the machine of every CreateCodespace
\* request is the name of a listed machine.
C17_MachineIsAvailable ==
    LET names == [i \in 1..Len(crMachines) |-> crMachines[i].Name] IN
    /\ \A k \in DOMAIN CreateCalls : CreateCalls[k].args.Machine \in Elements(names)
    /\ \A k \in DOMAIN CallsOf("GetCodespacesMachines") :
          CallsOf("GetCodespacesMachines")[k].args
             = <<crRepository[1].ID, crBranch, crInputs.Location, crDevContainerPath>>
    /\ (crOpts.machine # NoMachine /\ MachinesListed
        /\ crOpts.machine \notin Elements(names)) =>
          /\ crPc = "done"
          /\ crErr = Err("error getting machine type",
                         Err("there is no such machine for the repository",
                             <<crOpts.machine, names>>))
          /\ CreateCalls = << >>

\* --machine named a machine that is not among the two listed
C17_Witness ==
    /\ crOpts.machine = OtherMachine
    /\ Len(crMachines) = 2
    /\ crPc = "done"
    /\ crErr.kind = "error getting machine type"
    /\ crErr.detail.detail = <<OtherMachine, <<MachineName(1), MachineName(2)>>>>
    /\ CreateCalls = << >>

\* ListDevContainers was called and returned its list
DevContainersListed ==
    /\ CallsOf("ListDevContainers") # << >>
    /\ crErr # Err("error getting devcontainer.json paths", << >>)

\* the paths of the files listed, in order
ListedPaths == [i \in 1..Len(crDevContainers) |-> crDevContainers[i].Path]

IsDefaultPath(path) == path \in {".devcontainer.json", ".devcontainer/devcontainer.json"}

\* every CreateCodespace request so far carries the devcontainer path path
Submits(path) == \A k \in DOMAIN CreateCalls : CreateCalls[k].args.DevContainerPath = path

\* C18: when --devcontainer-path is not given and ListDevContainers returns
\* one file, at one of the default paths, Create asks nothing about the
\* devcontainer and submits that path; when it returns no file, Create asks
\* nothing and the path stays empty.
C18_DevContainerAutoSelect ==
    (crOpts.devContainerPath = NoText /\ DevContainersListed) =>
        /\ (Len(crDevContainers) = 1 /\ IsDefaultPath(crDevContainers[1].Path)) =>
              /\ PromptsOfKind("devContainerPath") = << >>
              /\ crDevContainerPath = crDevContainers[1].Path
              /\ Submits(crDevContainers[1].Path)
        /\ Len(crDevContainers) = 0 =>
              /\ PromptsOfKind("devContainerPath") = << >>
              /\ crDevContainerPath = NoText
              /\ Submits(NoText)

\* the only file listed, .devcontainer/devcontainer.json, went into the
\* CreateCodespace request without a prompt
C18_Witness ==
    /\ crOpts.devContainerPath = NoText
    /\ ListedPaths = <<".devcontainer/devcontainer.json">>
    /\ PromptsOfKind("devContainerPath") = << >>
    /\ Len(CreateCalls) = 1
    /\ CreateCalls[1].args.DevContainerPath = ".devcontainer/devcontainer.json"

\* Create asks about the devcontainer exactly when the list is neither empty
\* nor a single file at a default path
AsksWhenItShould ==
    (crOpts.devContainerPath = NoText /\ DevContainersListed) =>
        (PromptsOfKind("devContainerPath") # << >>
            <=> (Len(crDevContainers) > 0
                 /\ ~(Len(crDevContainers) = 1 /\ IsDefaultPath(crDevContainers[1].Path))))

\* the sentinel was chosen, and so the path submitted is empty
SentinelSubmitsNothing ==
    \A k \in DOMAIN PromptsOfKind("devContainerPath") :
        LET answer == PromptsOfKind("devContainerPath")[k].answer IN
        (~answer.err /\ answer.text = DEVCONTAINER_PROMPT_DEFAULT) =>
            (crDevContainerPath = NoText /\ Submits(NoText))

\* C19 as stated: whenever Create asks about the devcontainer, which it does
\* for every list but the empty one and the one of a single default path, the
\* options are the default configuration followed by the paths listed, and
\* choosing the default configuration submits an empty path.
C19_SentinelAlwaysOffered ==
    /\ AsksWhenItShould
    /\ SentinelSubmitsNothing
    /\ \A k \in DOMAIN PromptsOfKind("devContainerPath") :
          PromptsOfKind("devContainerPath")[k].options
             = <<DEVCONTAINER_PROMPT_DEFAULT>> \o ListedPaths

\* C19, amended: whenever Create asks about the devcontainer, which it does
\* for every list but the empty one and the one of a single default path, the
\* options are the paths listed, preceded by the default configuration only
\* if the first path listed is not a default path; where the default
\* configuration is offered, choosing it submits an empty path, and the path
\* submitted is otherwise the path chosen.
C19_SentinelUnlessFirstIsDefault ==
    /\ AsksWhenItShould
    /\ SentinelSubmitsNothing
    /\ Len(PromptsOfKind("devContainerPath")) <= 1
    /\ \A k \in DOMAIN PromptsOfKind("devContainerPath") :
          LET q == PromptsOfKind("devContainerPath")[k] IN
          /\ q.options = (IF IsDefaultPath(ListedPaths[1]) THEN << >>
                          ELSE <<DEVCONTAINER_PROMPT_DEFAULT>>) \o ListedPaths
          /\ (~q.answer.err /\ q.answer.text # DEVCONTAINER_PROMPT_DEFAULT) =>
                (crDevContainerPath = q.answer.text /\ Submits(q.answer.text))

\* one file listed, not at a default path: the default configuration was
\* offered before it and chosen, and the request went out with an empty path
C19_Witness ==
    /\ ListedPaths = <<".devcontainer/x/devcontainer.json">>
    /\ Len(PromptsOfKind("devContainerPath")) = 1
    /\ PromptsOfKind("devContainerPath")[1].options
          = <<DEVCONTAINER_PROMPT_DEFAULT, ".devcontainer/x/devcontainer.json">>
    /\ PromptsOfKind("devContainerPath")[1].answer.text = DEVCONTAINER_PROMPT_DEFAULT
    /\ Len(CreateCalls) = 1
    /\ CreateCalls[1].args.DevContainerPath = NoText

\* C20: Create calls showStatus if and only if --status was given and a
\* CreateCodespace call, the first or the retry, returned a codespace, and
\* calls it for that codespace; Create prints the name of the codespace and
\* returns nil only after showStatus has returned nil; when showStatus fails,
\* Create fails with "show status" and prints nothing.
C20_StatusBeforeSuccess ==
    /\ Len(crStatus) <= 1
    /\ crStatus # << >> =>
          /\ crOpts.showStatus
          /\ crCodespace # << >>
          /\ crStatus[1].codespace = crCodespace[1].Name
    /\ (crOpts.showStatus /\ crCodespace # << >> /\ crPc # "status") => crStatus # << >>
    /\ crPc = "polling" => (crOut = << >> /\ crErr = NoErr /\ crStatus[1].result = << >>)
    /\ crOut # << >> =>
          /\ crOut = <<crCodespace[1].Name>>
          /\ crOpts.showStatus => crStatus[1].result = <<NoErr>>
    /\ (crPc = "done" /\ crErr = NoErr) => crOut # << >>
    /\ (crStatus # << >> /\ crStatus[1].result \notin {<< >>, <<NoErr>>}) =>
          /\ crPc = "done"
          /\ crErr = Err("show status", crStatus[1].result[1])
          /\ crOut = << >>

\* the retry created the codespace, showStatus returned nil, and the name was
\* printed
C20_Witness ==
    /\ crOpts.showStatus
    /\ Len(CreateCalls) = 2
    /\ crStatus = <<[codespace |-> "new-codespace", result |-> <<NoErr>>]>>
    /\ crOut = <<"new-codespace">>
    /\ crPc = "done"
    /\ crErr = NoErr

----------------------------------------------------------------------------
(* Failures and order of the control-plane calls of Create *)

\* a.io.ErrOut holds the request to authorize or deny permissions
PermissionsReported ==
    "You must authorize or deny additional permissions" \in Elements(crErrOut)

\* C21: a control-plane call that failed is not passed over in silence: once
\* Create has returned, either it returned an error, or the failure (of a
\* CreateCodespace call that asked for permissions) was printed on ErrOut.
C21_NoFailureSwallowed ==
    \A k \in DOMAIN crApiCalls :
        (crApiCalls[k].failed /\ crPc = "done") =>
            \/ crErr # NoErr
            \/ crApiCalls[k].op = "CreateCodespace" /\ PermissionsReported

\* the same, for every call but GetCodespaceRepoSuggestions
C21_NoFailureSwallowedButSuggestions ==
    \A k \in DOMAIN crApiCalls :
        (crApiCalls[k].failed /\ crPc = "done"
         /\ crApiCalls[k].op # "GetCodespaceRepoSuggestions") =>
            \/ crErr # NoErr
            \/ crApiCalls[k].op = "CreateCodespace" /\ PermissionsReported

----------------------------------------------------------------------------
(* Rebuild of a codespace that is rebuilding already *)

AlreadyRebuilding ==
    rbCodespace # << >> /\ rbCodespace[1].State = CodespaceStateRebuilding

\* C30: for a codespace whose state is Rebuilding, Rebuild returns success
\* without opening a session and without calling RebuildContainer; for any
\* other state RebuildContainer is called at most once, and only after the
\* session was opened.
C30_RebuildingIsLeftAlone ==
    /\ AlreadyRebuilding =>
          /\ rbOpened = 0
          /\ rbRebuilds = 0
          /\ rbClosed = 0
          /\ rbErr = NoErr
          /\ rbPc \in {"resolved", "done"}
          /\ rbPc = "done" => rbOut = <<<<rbCodespace[1].Name, "is already rebuilding">>>>
    /\ rbRebuilds <= 1
    /\ rbRebuilds = 1 =>
          /\ rbOpened = 1
          /\ rbCodespace # << >>
          /\ rbCodespace[1].State # CodespaceStateRebuilding
          /\ ~ rbCodespace[1].PendingOperation
    /\ (rbPc = "done" /\ rbCodespace # << >> /\ ~ AlreadyRebuilding /\ rbOpened = 1) =>
          rbRebuilds = 1

\* a rebuilding codespace chosen at the prompt: Rebuild returned nil at once
C30_Witness ==
    /\ rbName = NoName
    /\ AlreadyRebuilding
    /\ rbPc = "done"
    /\ rbErr = NoErr
    /\ rbOpened = 0
    /\ rbRebuilds = 0

----------------------------------------------------------------------------
(* How Delete finds its candidates, and filtering before confirmation *)

ListCalls == SelectSeq(dlApiCalls, LAMBDA call : call.op = "ListCodespaces")

GetCalls ==
    SelectSeq(dlApiCalls, LAMBDA call : call.op \in {"GetCodespace", "GetOrgMemberCodespace"})

ChoosePrompts == SelectSeq(dlPrompts, LAMBDA q : q.kind = "choose")

\* Delete is past the fetch of its candidates
Fetched == dlPc \in {"choose", "filter", "wait", "done"} /\ flagError(dlOpts) = NoErr

\* Delete is past the choice among its candidates
Resolved == dlPc \in {"filter", "wait"} \/ (dlPc = "done" /\ dlIndex > 1)

WantsPrompt == ~ dlOpts.deleteAll /\ dlOpts.repoFilter = NoRepo

NewestFirst(list) ==
    \A i, j \in DOMAIN list : i < j => ~ Newer(list[j].CreatedAt, list[i].CreatedAt)

\* with a name: one lookup of that name, GetOrgMemberCodespace when both the
\* organization and the user are given, and no listing
ByName ==
    dlOpts.codespaceName # NoName =>
        /\ Len(ListCalls) = 0
        /\ Len(ChoosePrompts) = 0
        /\ Len(GetCalls) <= 1
        /\ Fetched => Len(GetCalls) = 1
        /\ \A k \in DOMAIN GetCalls :
              /\ GetCalls[k].name = dlOpts.codespaceName
              /\ GetCalls[k].op = "GetOrgMemberCodespace" <=>
                    (dlOpts.scope.orgName # "" /\ dlOpts.scope.userName # "")
        /\ Resolved => Len(dlCodespaces) = 1 /\ dlCodespaces[1].Name = dlOpts.codespaceName

\* without a name: one listing of the scope, and one prompt over the list,
\* newest first, exactly when neither --all nor --repo was given; the answer
\* is the name filter
ByList ==
    dlOpts.codespaceName = NoName =>
        /\ Len(GetCalls) = 0
        /\ Len(ListCalls) <= 1
        /\ Fetched => Len(ListCalls) = 1
        /\ \A k \in DOMAIN ListCalls : ListCalls[k].scope = dlOpts.scope
        /\ Len(ChoosePrompts) <= 1
        /\ Len(ChoosePrompts) = 1 => WantsPrompt
        /\ (Resolved /\ WantsPrompt) =>
              /\ Len(ChoosePrompts) = 1
              /\ ~ ChoosePrompts[1].answer.err
              /\ dlNameFilter = ChoosePrompts[1].options[ChoosePrompts[1].answer.idx].Name
        /\ (Resolved /\ ~ WantsPrompt) => dlNameFilter = NoName
        /\ \A k \in DOMAIN ChoosePrompts :
              LET options == ChoosePrompts[k].options IN
              /\ NewestFirst(options)
              /\ Len(options) = Len(dlCodespaces)
              /\ Len(options) > 0
              /\ \A c \in Range(dlCodespaces) : c \in Range(options)

\* C28: with a name Delete fetches that one record (GetOrgMemberCodespace
\* when both organization and user are given, GetCodespace otherwise) and
\* never lists; without a name it lists once and asks to choose one record,
\* offered newest first, exactly when neither --all nor --repo was given; the
\* chosen record's name is the name filter, so at most that record is deleted.
C28_CandidateResolution ==
    /\ ByName
    /\ ByList
    /\ dlNameFilter # NoName =>
          /\ Len(DeleteCalls) <= 1
          /\ \A k \in DOMAIN DeleteCalls : DeleteCalls[k].name = dlNameFilter

\* the older of two listed codespaces was chosen at the prompt and deleted
C28_Witness ==
    /\ Len(ChoosePrompts) = 1
    /\ Len(ChoosePrompts[1].options) = 2
    /\ Newer(ChoosePrompts[1].options[1].CreatedAt, ChoosePrompts[1].options[2].CreatedAt)
    /\ ChoosePrompts[1].options[1].Name = CodespaceName(2)
    /\ ChoosePrompts[1].answer.idx = 2
    /\ Len(DeleteCalls) = 1
    /\ dlPc = "done"


\* the name, repository or age filter leaves record c out
Excluded(c) == ~ NameMatches(c) \/ ~ RepoMatches(c) \/ ~ UsedLongAgo(c)

\* C29: a record that the name, repository or age filter leaves out is never
\* asked about and never deleted; a record that passes the filters and has no
\* unsaved changes is asked about zero times, is put on the deletion list
\* when the loop reaches it, and is deleted once the deletions have run.
C29_FilterBeforeConfirmation ==
    \A k \in DOMAIN dlCodespaces :
        LET c == dlCodespaces[k] IN
        /\ Excluded(c) =>
              /\ PromptsAbout(c.Name) = {}
              /\ DeleteCallsFor(c.Name) = {}
              /\ c \notin Range(dlToDelete)
        /\ (~ Excluded(c) /\ ~ hasUnsavedChanges(c)) =>
              /\ PromptsAbout(c.Name) = {}
              /\ (LoopReached /\ k < dlIndex) => c \in Range(dlToDelete)
              /\ (LoopReached /\ k < dlIndex /\ Deleted) =>
                    Cardinality(DeleteCallsFor(c.Name)) = 1

\* keepDays = 1: the record used today was left out although it has unsaved
\* changes, the record used two days ago was deleted, and nothing was asked
C29_Witness ==
    /\ dlOpts.keepDays = 1
    /\ ~ dlOpts.skipConfirm
    /\ dlOpts.isInteractive
    /\ Len(dlCodespaces) = 2
    /\ dlCodespaces[1].LastUsedAt = Stamp(Today)
    /\ hasUnsavedChanges(dlCodespaces[1])
    /\ dlCodespaces[2].LastUsedAt = Stamp(0)
    /\ ~ hasUnsavedChanges(dlCodespaces[2])
    /\ Deleted
    /\ dlPrompts = << >>
    /\ Cardinality(DeleteCallsFor(dlCodespaces[2].Name)) = 1
    /\ DeleteCallsFor(dlCodespaces[1].Name) = {}

----------------------------------------------------------------------------
(* One pass of the poller of showStatus, and when showStatus returns *)

PassStates == stLastPass.states

\* finishedStates as the last pass found it
FinishedBefore == finishedStates \ Range(stLastPass.added)

\* entry k of the last pass was not in finishedStates when the loop came to it
NotFinishedAt(k) ==
    /\ PassStates[k].Name \notin FinishedBefore
    /\ \A j \in 1..(k - 1) : PassStates[j].Name # PassStates[k].Name

IsStop(k) == PassStates[k].Status = PostCreateStateRunning /\ NotFinishedAt(k)

\* the positions of the Running entries that were not finished
Stops == {k \in DOMAIN PassStates : IsStop(k)}

\* the position of the first of them, or one past the list
StopAt == IF Stops = {} THEN Len(PassStates) + 1
          ELSE CHOOSE k \in Stops : \A j \in Stops : k <= j

\* the positions before the stop whose entries were not finished
TerminalBeforeStop == {k \in 1..(StopAt - 1) : NotFinishedAt(k)}

\* the first position of name n in the list
Pos(n) == CHOOSE k \in DOMAIN PassStates :
              PassStates[k].Name = n /\ \A j \in 1..(k - 1) : PassStates[j].Name # n

\* C25: a pass of the poller goes through the list in order and stops at the
\* first entry that is not finished and Running: nothing after it is
\* displayed or put into the finished-set in that pass, and the unfinished
\* entries before it are all put into the finished-set, in list order.
C25_PassStopsAtFirstRunning ==
    LET added == stLastPass.added
        started == stLastPass.started
    IN  /\ stLastPass.inProgress <=> Stops # {}
        /\ Range(added) = {PassStates[k].Name : k \in TerminalBeforeStop}
        /\ Len(added) = Cardinality(TerminalBeforeStop)
        /\ \A i, j \in DOMAIN added : i < j => Pos(added[i]) < Pos(added[j])
        /\ Len(started) <= Cardinality(TerminalBeforeStop) + 1
        /\ \A i \in DOMAIN started :
              /\ \E k \in 1..StopAt : k <= Len(PassStates) /\ PassStates[k].Name = started[i]
              /\ \A j \in DOMAIN started : i < j => Pos(started[i]) < Pos(started[j])
        /\ \A k \in DOMAIN PassStates :
              (k > StopAt /\ NotFinishedAt(k)) =>
                  /\ PassStates[k].Name \notin finishedStates
                  /\ PassStates[k].Name \notin Range(started)

\* the pass stopped at its first entry and left the finished one behind it alone
C25_Witness ==
    /\ PassStates = <<[Name |-> "b", Status |-> PostCreateStateRunning],
                      [Name |-> "a", Status |-> PostCreateStateSuccess]>>
    /\ stLastPass.inProgress
    /\ stLastPass.started = <<"b">>
    /\ "a" \notin finishedStates

\* a pass put both of its entries into the finished-set
C25_WitnessOrder ==
    /\ Len(PassStates) = 2
    /\ stLastPass.added = <<"b", "a">>

\* no external cancellation and no failure of the polling itself
Undisturbed == stExternal = "none" /\ stPollErr # "failed"

\* the last pass was given no Running entry
NoRunningReported ==
    \A k \in DOMAIN PassStates : PassStates[k].Status # PostCreateStateRunning

Returned == stPc = "done"

\* a pass that was given a Running entry that was not finished leaves the
\* polling going
RunningKeepsPolling ==
    (stLastPass'.tick # stLastPass.tick /\ Stops' # {}) => (~ stStopped' /\ ~ Returned')

\* two passes in a row with nothing in progress have stopped the polling, and
\* undisturbed, showStatus returns only after the poller stopped the polling,
\* and then with success
C26_Safety ==
    /\ (Len(stWindow) = 2 /\ ~ stWindow[1] /\ ~ stWindow[2]) => stStopped
    /\ (Returned /\ Undisturbed) => (stStopped /\ stErr = NoErr)
    /\ (stStopped /\ Len(stWindow) > 0) => ~ stWindow[Len(stWindow)]

\* C26: when from some pass on no Running task is reported and the passes keep
\* coming, showStatus stops polling, at the latest on the second such pass,
\* and returns success; when every pass reports an unfinished Running task
\* and nothing cancels from outside, showStatus never returns: no such pass
\* stops the polling, and without a stop showStatus does not return.
C26_Termination ==
    /\ []C26_Safety
    /\ [][RunningKeepsPolling]_vars
    /\ <>[]NoRunningReported => <>(~ Undisturbed \/ (Returned /\ stErr = NoErr))

\* showStatus returned success after two passes without a Running task
C26_Witness ==
    /\ Returned
    /\ stErr = NoErr
    /\ Undisturbed
    /\ stWindow = <<FALSE, FALSE>>
    /\ NoRunningReported

----------------------------------------------------------------------------
(* the pipeline of Create *)

\* the stage of Create a control-plane call belongs to
Stage(op) ==
    CASE op = "GetRepository" -> 1
      [] op = "GetCodespaceBillableOwner" -> 2
      [] op = "ListDevContainers" -> 3
      [] op = "GetCodespacesMachines" -> 4
      [] op = "CreateCodespace" -> 5

IsPipelineCall(call) == call.op # "GetCodespaceRepoSuggestions"

\* the calls of the stages, in the order they were made
PipelineCalls == SelectSeq(crApiCalls, IsPipelineCall)

\* the stage that has to come right before a call of stage s
StageBefore(s) ==
    IF s = 4 /\ crOpts.devContainerPath # NoText THEN 2 ELSE s - 1

OrganizationNotice == "usage is paid for by" \in Elements(crErrOut)

OwnershipError == crErr.kind = "error checking codespace ownership"

\* the stages are called in their order, none left out but ListDevContainers
\* when a devcontainer path was given, and nothing follows a failed call
\* but the second CreateCodespace
InPipelineOrder ==
    /\ Len(PipelineCalls) > 0 => Stage(PipelineCalls[1].op) = 1
    /\ \A k \in 2..Len(PipelineCalls) :
          LET s == Stage(PipelineCalls[k].op)
              before == Stage(PipelineCalls[k - 1].op)
          IN  /\ (before = StageBefore(s)) \/ (s = 5 /\ before = 5)
              /\ PipelineCalls[k - 1].failed => (s = 5 /\ before = 5)
    /\ Len(CallsOf("ListDevContainers")) > 0 => crOpts.devContainerPath = NoText

\* the billing call, when it succeeds, is followed by the branch stage
BillingNeverBlocks ==
    (/\ crPc = "billableOwner"
     /\ ~ crApiCalls'[Len(crApiCalls')].failed) => crPc' = "branch"

\* C24: Create calls GetRepository, GetCodespaceBillableOwner,
\* ListDevContainers (only when no devcontainer path was given),
\* GetCodespacesMachines and CreateCodespace in this order; a failed call is
\* followed by no call of a later stage; an organization as billing owner
\* gives a notice and the later stages still run.
C24_PipelineOrder ==
    /\ [](InPipelineOrder /\ (OrganizationNotice => ~ OwnershipError))
    /\ [][BillingNeverBlocks]_vars

\* the organization's notice was printed and the codespace was created
\* without asking for the devcontainers
C24_Witness ==
    /\ OrganizationNotice
    /\ crPc = "done"
    /\ crErr = NoErr
    /\ Len(PipelineCalls) = 4
    /\ Len(CallsOf("ListDevContainers")) = 0

\* createParams is written to only to set the opt-out
OnlyOptOutChanges ==
    crParams # << >> =>
        \/ crParams' = crParams
        \/ /\ ~ crParams[1].PermissionsOptOut
           /\ crParams' = <<[crParams[1] EXCEPT !.PermissionsOptOut = TRUE]>>

\* C27: the second CreateCodespace request is the first one with the opt-out
\* set: repository, branch, machine, location, devcontainer path, idle
\* timeout, retention period and targets are those of the first request, and
\* the opt-out changes at most once, to true.
C27_RetrySameParams ==
    /\ [](Len(CreateCalls) = 2 =>
            /\ CreateCalls[2].args.PermissionsOptOut
            /\ CreateCalls[2].args =
                  [CreateCalls[1].args EXCEPT !.PermissionsOptOut = TRUE])
    /\ [](\A k \in DOMAIN CreateCalls :
            \A f \in DOMAIN CreateCalls[k].args \ {"PermissionsOptOut"} :
                CreateCalls[k].args[f] =
                    createParams(crRepository[1], crBranch, crMachine, crInputs, crOpts,
                                 crDevContainerPath)[f])
    /\ [][OnlyOptOutChanges]_vars

\* a retry that carried a branch, a machine and a devcontainer path over
C27_Witness ==
    /\ Len(CreateCalls) = 2
    /\ ~ CreateCalls[1].args.PermissionsOptOut
    /\ CreateCalls[2].args.Machine # NoMachine
    /\ CreateCalls[2].args.DevContainerPath # NoText
    /\ CreateCalls[2].args.Branch = "dev"
    /\ CreateCalls[2].args.Location # NoText

----------------------------------------------------------------------------
(* root.go: lazyLoadedHTTPClient.Do *)

\* line 173: l.httpClientMu.RLock()
ClRLock(g) ==
    /\ clPc[g] = "RLock"
    /\ clMu.writer = 0
    /\ clMu' = [clMu EXCEPT !.readers = @ \cup {g}]
    /\ clPc' = [clPc EXCEPT ![g] = "read"]
    /\ UNCHANGED <<clHttpClient, clLocal, clFactoryErr, clVisible, clSent, clWrites>>
    /\ UNCHANGED otherThanClient

\* line 174: httpClient := l.httpClient
ClRead(g) ==
    /\ clPc[g] = "read"
    /\ clLocal' = [clLocal EXCEPT ![g] = clHttpClient]
    /\ clPc' = [clPc EXCEPT ![g] = "RUnlock"]
    /\ UNCHANGED <<clMu, clHttpClient, clFactoryErr, clVisible, clSent, clWrites>>
    /\ UNCHANGED otherThanClient

\* lines 175-177: l.httpClientMu.RUnlock(); if httpClient == nil
ClRUnlock(g) ==
    /\ clPc[g] = "RUnlock"
    /\ clMu' = [clMu EXCEPT !.readers = @ \ {g}]
    /\ clVisible' = [clVisible EXCEPT ![g] = {clHttpClient}]
    /\ clPc' = [clPc EXCEPT ![g] = IF clLocal[g] = NilClient THEN "Lock" ELSE "Do"]
    /\ UNCHANGED <<clHttpClient, clLocal, clFactoryErr, clSent, clWrites>>
    /\ UNCHANGED otherThanClient

\* line 179: l.httpClientMu.Lock()
ClLock(g) ==
    /\ clPc[g] = "Lock"
    /\ clMu.writer = 0
    /\ clMu.readers = {}
    /\ clMu' = [clMu EXCEPT !.writer = g]
    /\ clPc' = [clPc EXCEPT ![g] = "factory"]
    /\ UNCHANGED <<clHttpClient, clLocal, clFactoryErr, clVisible, clSent, clWrites>>
    /\ UNCHANGED otherThanClient

\* what l.factory.HttpClient() returns: a new client and no error, or nil and an error
factoryHttpClient(ok) ==
    IF ok THEN [client |-> Len(clWrites) + 1, err |-> FALSE]
    ELSE [client |-> NilClient, err |-> TRUE]

\* line 180: l.httpClient, err = l.factory.HttpClient(); both results are assigned
ClFactory(g) ==
    /\ clPc[g] = "factory"
    /\ \E ok \in BOOLEAN :
         LET r == factoryHttpClient(ok) IN
         /\ clHttpClient' = r.client
         /\ clFactoryErr' = [clFactoryErr EXCEPT ![g] = r.err]
         /\ clWrites' = Append(clWrites, r.client)
         /\ clVisible' = [h \in Callers |->
                             IF h = g THEN {r.client} ELSE clVisible[h] \cup {r.client}]
    /\ clPc' = [clPc EXCEPT ![g] = "Unlock"]
    /\ UNCHANGED <<clMu, clLocal, clSent>>
    /\ UNCHANGED otherThanClient

\* lines 181-184: l.httpClientMu.Unlock(); if err != nil { return nil, err }
ClUnlock(g) ==
    /\ clPc[g] = "Unlock"
    /\ clMu' = [clMu EXCEPT !.writer = 0]
    /\ clPc' = [clPc EXCEPT ![g] = IF clFactoryErr[g] THEN "done" ELSE "Do"]
    /\ UNCHANGED <<clHttpClient, clLocal, clFactoryErr, clVisible, clSent, clWrites>>
    /\ UNCHANGED otherThanClient

\* line 187: return l.httpClient.Do(req); the field is read without the lock,
\* so the read gives the value of the goroutine's last locked section or any
\* value written since
ClDo(g) ==
    /\ clPc[g] = "Do"
    /\ \E c \in clVisible[g] : clSent' = [clSent EXCEPT ![g] = <<c>>]
    /\ clPc' = [clPc EXCEPT ![g] = "done"]
    /\ UNCHANGED <<clMu, clHttpClient, clLocal, clFactoryErr, clVisible, clWrites>>
    /\ UNCHANGED otherThanClient

NextClient ==
    \E g \in Callers :
        \/ ClRLock(g)
        \/ ClRead(g)
        \/ ClRUnlock(g)
        \/ ClLock(g)
        \/ ClFactory(g)
        \/ ClUnlock(g)
        \/ ClDo(g)

InitClient == ClientStart /\ RebuildIdle /\ StatusIdle /\ DeleteIdle /\ CreateIdle

SpecClient == InitClient /\ [][NextClient]_vars

\* C23: under any interleaving of the goroutines in Do, failing factory calls
\* included, no goroutine sends its request through a nil client and a
\* client that was stored is never replaced by nil.
C23_DoIsSafeForConcurrentUse ==
    /\ \A g \in Callers : clSent[g] # <<NilClient>>
    /\ \A k \in 1..(Len(clWrites) - 1) :
          clWrites[k] # NilClient => clWrites[k + 1] # NilClient

----------------------------------------------------------------------------
(* the commands and their control-plane calls *)

\* one invocation of the create command or of the delete command
NextCommand == NextCreate \/ NextDelete
InitCommand == InitCreate \/ InitDelete
SpecCommand == InitCommand /\ [][NextCommand]_vars

\* the calls of Create that are made once
OnceOnly ==
    {"GetRepository", "GetCodespaceBillableOwner", "ListDevContainers", "GetCodespacesMachines"}

\* C22: in one Create, GetRepository, GetCodespaceBillableOwner,
\* ListDevContainers and GetCodespacesMachines are each called at most once
\* and CreateCodespace at most twice, the second time only after the first
\* call asked for permissions and the user chose to continue without them; in
\* one Delete, DeleteCodespace is called at most once for a codespace name.
C22_NoAutomaticRetry ==
    /\ \A op \in OnceOnly : Len(CallsOf(op)) <= 1
    /\ Len(CreateCalls) <= 2
    /\ Len(CreateCalls) = 2 =>
          /\ CreateCalls[1].failed
          /\ crAllowURL # NoText
          /\ Len(PromptsOfKind("accept")) = 1
          /\ PromptsOfKind("accept")[1].answer.text = choices[2]
          /\ CreateCalls[2].args.PermissionsOptOut
    /\ \A k \in DOMAIN dlCodespaces :
          Cardinality(DeleteCallsFor(dlCodespaces[k].Name)) <= 1
    /\ Len(DeleteCalls) <= Len(dlCodespaces)

\* a Create whose two CreateCodespace calls both failed
C22_Witness ==
    /\ Len(CreateCalls) = 2
    /\ CreateCalls[1].failed
    /\ CreateCalls[2].failed
    /\ crPc = "done"
    /\ \A op \in OnceOnly : Len(CallsOf(op)) = 1

====
